---- MODULE Spec2Model ----
(***************************************************************************)
(* Chaotic Chess: the rule engine (ChessEngine) over a growing cell set.   *)
(* A snapshot is a record [cells, pieces, turn, lastMove, gold].  cells is *)
(* a set of keys; a key is the pair <<x, y>> that the "x,y" string of the  *)
(* source spells out.  pieces is held as a set of piece records: the       *)
(* source's array is only ever searched by position, colour or type, and   *)
(* the engine's input preconditions (unique positions, at most one king    *)
(* per colour) make every such search independent of the array order.      *)
(***************************************************************************)
EXTENDS Integers, Sequences, FiniteSets, TLC

VARIABLES state, plies, grown, call, sim, exp, ui, p2p

vars == <<state, plies, grown, call, sim, exp, ui, p2p>>

(***************************************************************************)
(* Bounds of the model                                                     *)
(***************************************************************************)
\* plies applied from an initial snapshot
MaxPlies == 2
\* growth events applied from an initial snapshot
MaxGrowths == 1
\* the random base cell of a growth event in the ply loop is drawn among the
\* first MaxGrowBase cells of the cell list
MaxGrowBase == 1
\* magnitude at which x += dx stops changing x (2^53 for a JS number)
SatLimit == 6

(***************************************************************************)
(* types.ts                                                                *)
(***************************************************************************)
WHITE == "white"
BLACK == "black"
Color == {WHITE, BLACK}

PAWN == "pawn"
ROOK == "rook"
KNIGHT == "knight"
BISHOP == "bishop"
QUEEN == "queen"
KING == "king"
PieceType == {PAWN, ROOK, KNIGHT, BISHOP, QUEEN, KING}

Pos(x, y) == [x |-> x, y |-> y]

NoMove == [none |-> TRUE]

Abs(n) == IF n < 0 THEN -n ELSE n

(***************************************************************************)
(* chessLogic: keys                                                        *)
(***************************************************************************)
posToKey(pos) == <<pos.x, pos.y>>

keyToPos(key) == [x |-> key[1], y |-> key[2]]

opponent(color) == IF color = WHITE THEN BLACK ELSE WHITE

(***************************************************************************)
(* ChessEngine.getPieceAt: hasPieceAt is the truthiness of its result      *)
(***************************************************************************)
hasPieceAt(st, pos) == \E p \in st.pieces : p.pos.x = pos.x /\ p.pos.y = pos.y

getPieceAt(st, pos) == CHOOSE p \in st.pieces : p.pos.x = pos.x /\ p.pos.y = pos.y

\* getPieceAt(state, p)?.color !== piece.color
notOwnAt(st, pos, color) ==
    \A p \in st.pieces : (p.pos.x = pos.x /\ p.pos.y = pos.y) => p.color # color

(***************************************************************************)
(* ChessEngine.simulateMove                                                *)
(***************************************************************************)
\* a variant that also records the move as lastMove and passes the turn
simulateMoveFullPly(st, move) ==
    LET kept == {p \in st.pieces : ~(p.pos.x = move.to.x /\ p.pos.y = move.to.y)}
        newPieces == { IF p.pos.x = move.from.x /\ p.pos.y = move.from.y
                       THEN [p EXCEPT !.pos = move.to, !.hasMoved = TRUE]
                       ELSE p : p \in kept }
    IN  IF /\ move.piece.type = PAWN
           /\ move.from.x # move.to.x
           /\ ~hasPieceAt(st, move.to)
        THEN [st EXCEPT !.pieces =
                 {p \in newPieces : ~(p.pos.x = move.to.x /\ p.pos.y = move.from.y)},
                        !.turn = opponent(st.turn), !.lastMove = move]
        ELSE [st EXCEPT !.pieces = newPieces,
                        !.turn = opponent(st.turn), !.lastMove = move]

\* a variant without the capture filter: a piece on the destination stays
simulateMoveNoCapture(st, move) ==
    LET newPieces == { IF p.pos.x = move.from.x /\ p.pos.y = move.from.y
                       THEN [p EXCEPT !.pos = move.to, !.hasMoved = TRUE]
                       ELSE p : p \in st.pieces }
    IN  IF /\ move.piece.type = PAWN
           /\ move.from.x # move.to.x
           /\ ~hasPieceAt(st, move.to)
        THEN [st EXCEPT !.pieces =
                 {p \in newPieces : ~(p.pos.x = move.to.x /\ p.pos.y = move.from.y)}]
        ELSE [st EXCEPT !.pieces = newPieces]

simulateMove(st, move) ==
    LET kept == {p \in st.pieces : ~(p.pos.x = move.to.x /\ p.pos.y = move.to.y)}
        newPieces == { IF p.pos.x = move.from.x /\ p.pos.y = move.from.y
                       THEN [p EXCEPT !.pos = move.to, !.hasMoved = TRUE]
                       ELSE p : p \in kept }
    IN  IF /\ move.piece.type = PAWN
           /\ move.from.x # move.to.x
           /\ ~hasPieceAt(st, move.to)
        THEN [st EXCEPT !.pieces =
                 {p \in newPieces : ~(p.pos.x = move.to.x /\ p.pos.y = move.from.y)}]
        ELSE [st EXCEPT !.pieces = newPieces]

\* a variant that relocates the moving piece inside the array it was given
simulateMoveInPlace(st, move) ==
    [st EXCEPT !.pieces =
        { IF p.pos.x = move.from.x /\ p.pos.y = move.from.y
          THEN [p EXCEPT !.pos = move.to, !.hasMoved = TRUE]
          ELSE p
          : p \in {q \in st.pieces :
                     ~(q.pos.x = move.to.x /\ q.pos.y = move.to.y)} }]

\* the snapshot passed to simulateMove as the caller reads it after the call:
\* filter and map build new arrays, the moved piece is a spread copy, and no
\* statement assigns to state, to state.pieces or to a field of a piece
simulateMoveArgument(st, move) == st

\* the parts of simulateMove's result that are objects the call has created:
\* the snapshot (an object literal), its pieces array (built by filter and
\* map) and the copy of the moved piece; every other piece, and cells,
\* lastMove and gold, are the argument's own objects
simulateMoveFresh(st, move) ==
    {"snapshot", "pieces"}
        \cup {q.id : q \in {p \in simulateMove(st, move).pieces :
                               /\ p.pos.x = move.to.x /\ p.pos.y = move.to.y
                               /\ move.from # move.to}}

(***************************************************************************)
(* ChessEngine.getPawnMoves                                                *)
(***************************************************************************)
\* a variant whose en passant test accepts a last pawn move of any length
getPawnMovesAnyAdvance(st, piece) ==
    LET dir == IF piece.color = WHITE THEN -1 ELSE 1
        startY == IF piece.color = WHITE THEN 6 ELSE 1
        oneStep == Pos(piece.pos.x, piece.pos.y + dir)
        twoStep == Pos(piece.pos.x, piece.pos.y + 2 * dir)
        forward ==
            IF posToKey(oneStep) \in st.cells /\ ~hasPieceAt(st, oneStep)
            THEN {oneStep} \cup
                 (IF /\ piece.pos.y = startY
                     /\ posToKey(twoStep) \in st.cells
                     /\ ~hasPieceAt(st, twoStep)
                  THEN {twoStep} ELSE {})
            ELSE {}
        captures == {Pos(piece.pos.x - 1, piece.pos.y + dir),
                     Pos(piece.pos.x + 1, piece.pos.y + dir)}
        taken == {c \in captures :
                    /\ posToKey(c) \in st.cells
                    /\ \/ hasPieceAt(st, c) /\ getPieceAt(st, c).color # piece.color
                       \/ /\ ~hasPieceAt(st, c)
                          /\ st.lastMove # NoMove
                          /\ st.lastMove.piece.type = PAWN
                          /\ st.lastMove.to.x = c.x
                          /\ st.lastMove.to.y = piece.pos.y}
    IN  forward \cup taken

\* a variant that grants the two-square advance only to a pawn not yet moved
getPawnMovesUnmovedOnly(st, piece) ==
    LET dir == IF piece.color = WHITE THEN -1 ELSE 1
        startY == IF piece.color = WHITE THEN 6 ELSE 1
        oneStep == Pos(piece.pos.x, piece.pos.y + dir)
        twoStep == Pos(piece.pos.x, piece.pos.y + 2 * dir)
        forward ==
            IF posToKey(oneStep) \in st.cells /\ ~hasPieceAt(st, oneStep)
            THEN {oneStep} \cup
                 (IF /\ piece.pos.y = startY
                     /\ ~piece.hasMoved
                     /\ posToKey(twoStep) \in st.cells
                     /\ ~hasPieceAt(st, twoStep)
                  THEN {twoStep} ELSE {})
            ELSE {}
        captures == {Pos(piece.pos.x - 1, piece.pos.y + dir),
                     Pos(piece.pos.x + 1, piece.pos.y + dir)}
        taken == {c \in captures :
                    /\ posToKey(c) \in st.cells
                    /\ \/ hasPieceAt(st, c) /\ getPieceAt(st, c).color # piece.color
                       \/ /\ ~hasPieceAt(st, c)
                          /\ st.lastMove # NoMove
                          /\ st.lastMove.piece.type = PAWN
                          /\ st.lastMove.to.x = c.x
                          /\ st.lastMove.to.y = piece.pos.y
                          /\ Abs(st.lastMove.from.y - st.lastMove.to.y) = 2}
    IN  forward \cup taken

getPawnMoves(st, piece) ==
    LET dir == IF piece.color = WHITE THEN -1 ELSE 1
        startY == IF piece.color = WHITE THEN 6 ELSE 1
        oneStep == Pos(piece.pos.x, piece.pos.y + dir)
        twoStep == Pos(piece.pos.x, piece.pos.y + 2 * dir)
        forward ==
            IF posToKey(oneStep) \in st.cells /\ ~hasPieceAt(st, oneStep)
            THEN {oneStep} \cup
                 (IF /\ piece.pos.y = startY
                     /\ posToKey(twoStep) \in st.cells
                     /\ ~hasPieceAt(st, twoStep)
                  THEN {twoStep} ELSE {})
            ELSE {}
        captures == {Pos(piece.pos.x - 1, piece.pos.y + dir),
                     Pos(piece.pos.x + 1, piece.pos.y + dir)}
        taken == {c \in captures :
                    /\ posToKey(c) \in st.cells
                    /\ \/ hasPieceAt(st, c) /\ getPieceAt(st, c).color # piece.color
                       \/ /\ ~hasPieceAt(st, c)
                          /\ st.lastMove # NoMove
                          /\ st.lastMove.piece.type = PAWN
                          /\ st.lastMove.to.x = c.x
                          /\ st.lastMove.to.y = piece.pos.y
                          /\ Abs(st.lastMove.from.y - st.lastMove.to.y) = 2}
    IN  forward \cup taken

(***************************************************************************)
(* ChessEngine.getSlidingMoves: slideRay is the while loop of one dir      *)
(***************************************************************************)
\* the ray of the variant below: it walks on past a piece of the mover's colour
RECURSIVE slideRayPastFriend(_, _, _, _)
slideRayPastFriend(st, piece, cur, dir) ==
    IF posToKey(cur) \notin st.cells THEN {}
    ELSE IF ~hasPieceAt(st, cur)
         THEN {cur} \cup slideRayPastFriend(st, piece,
                                            Pos(cur.x + dir.x, cur.y + dir.y), dir)
         ELSE IF getPieceAt(st, cur).color # piece.color THEN {cur}
              ELSE slideRayPastFriend(st, piece,
                                      Pos(cur.x + dir.x, cur.y + dir.y), dir)

RECURSIVE slideRay(_, _, _, _)
slideRay(st, piece, cur, dir) ==
    IF posToKey(cur) \notin st.cells THEN {}
    ELSE IF ~hasPieceAt(st, cur)
         THEN {cur} \cup slideRay(st, piece, Pos(cur.x + dir.x, cur.y + dir.y), dir)
         ELSE IF getPieceAt(st, cur).color # piece.color THEN {cur} ELSE {}

\* a variant whose rays walk on past a piece of the mover's own colour
getSlidingMovesPastFriend(st, piece, dirs) ==
    UNION { slideRayPastFriend(st, piece,
                               Pos(piece.pos.x + dir.x, piece.pos.y + dir.y), dir)
            : dir \in dirs }

getSlidingMoves(st, piece, dirs) ==
    UNION { slideRay(st, piece, Pos(piece.pos.x + dir.x, piece.pos.y + dir.y), dir)
            : dir \in dirs }

RookDirs == {Pos(1, 0), Pos(-1, 0), Pos(0, 1), Pos(0, -1)}
BishopDirs == {Pos(1, 1), Pos(1, -1), Pos(-1, 1), Pos(-1, -1)}
QueenDirs == RookDirs \cup BishopDirs

(***************************************************************************)
(* ChessEngine.getKnightMoves / getKingMoves                               *)
(***************************************************************************)
KnightDiffs == {Pos(1, 2), Pos(1, -2), Pos(-1, 2), Pos(-1, -2),
                Pos(2, 1), Pos(2, -1), Pos(-2, 1), Pos(-2, -1)}

KingDiffs == {Pos(1, 0), Pos(-1, 0), Pos(0, 1), Pos(0, -1),
              Pos(1, 1), Pos(1, -1), Pos(-1, 1), Pos(-1, -1)}

getKnightMoves(st, piece) ==
    {p \in {Pos(piece.pos.x + d.x, piece.pos.y + d.y) : d \in KnightDiffs} :
        posToKey(p) \in st.cells /\ notOwnAt(st, p, piece.color)}

\* a variant that does not test the target against the cell set
getKingMovesOffBoard(st, piece) ==
    {p \in {Pos(piece.pos.x + d.x, piece.pos.y + d.y) : d \in KingDiffs} :
        notOwnAt(st, p, piece.color)}

getKingMoves(st, piece) ==
    {p \in {Pos(piece.pos.x + d.x, piece.pos.y + d.y) : d \in KingDiffs} :
        posToKey(p) \in st.cells /\ notOwnAt(st, p, piece.color)}

(***************************************************************************)
(* getValidMoves with ignoreCheck = true: the switch on piece.type, no     *)
(* castling, no filter                                                     *)
(***************************************************************************)
rawMoves(st, piece) ==
    CASE piece.type = PAWN -> getPawnMoves(st, piece)
      [] piece.type = ROOK -> getSlidingMoves(st, piece, RookDirs)
      [] piece.type = BISHOP -> getSlidingMoves(st, piece, BishopDirs)
      [] piece.type = KNIGHT -> getKnightMoves(st, piece)
      [] piece.type = QUEEN -> getSlidingMoves(st, piece, QueenDirs)
      [] piece.type = KING -> getKingMoves(st, piece)

(***************************************************************************)
(* ChessEngine.isKingInCheck                                               *)
(***************************************************************************)
\* a variant that reports check for a colour that has no king
isKingInCheckKingless(st, color) ==
    IF ~(\E p \in st.pieces : p.type = KING /\ p.color = color) THEN TRUE
    ELSE LET king == CHOOSE p \in st.pieces : p.type = KING /\ p.color = color
         IN  \E p \in st.pieces :
                /\ p.color = opponent(color)
                /\ \E m \in rawMoves(st, p) : m.x = king.pos.x /\ m.y = king.pos.y

isKingInCheck(st, color) ==
    IF ~(\E p \in st.pieces : p.type = KING /\ p.color = color) THEN FALSE
    ELSE LET king == CHOOSE p \in st.pieces : p.type = KING /\ p.color = color
         IN  \E p \in st.pieces :
                /\ p.color = opponent(color)
                /\ \E m \in rawMoves(st, p) : m.x = king.pos.x /\ m.y = king.pos.y

(***************************************************************************)
(* ChessEngine.getCastlingMoves.  castleDx is the scan direction chosen    *)
(* for one rook; castleStep is one evaluation of the for loop at x: the    *)
(* loop test, the body, and the increment.  A JS number that has reached   *)
(* magnitude 2^53 is not changed by x += dx; SatLimit stands for 2^53.     *)
(***************************************************************************)
castleRooks(st, piece) ==
    {p \in st.pieces : p.type = ROOK /\ p.color = piece.color /\ ~p.hasMoved}

castleDx(piece, rook) == IF rook.pos.x > piece.pos.x THEN 1 ELSE -1

satAdd(x, dx) == IF Abs(x + dx) > SatLimit THEN x ELSE x + dx

castleStep(st, piece, rook, x) ==
    IF x = rook.pos.x THEN [status |-> "exit", x |-> x]
    ELSE IF hasPieceAt(st, Pos(x, piece.pos.y)) THEN [status |-> "break", x |-> x]
    ELSE IF /\ Abs(x - piece.pos.x) <= 2
            /\ isKingInCheck(simulateMove(st, [from |-> piece.pos,
                                               to |-> Pos(x, piece.pos.y),
                                               piece |-> piece]), piece.color)
         THEN [status |-> "break", x |-> x]
         ELSE [status |-> "continue", x |-> satAdd(x, castleDx(piece, rook))]

\* the whole for loop of one rook: "clear", "blocked", or "diverges" when the
\* loop reaches a value of x from which it never leaves
RECURSIVE castleScan(_, _, _, _)
castleScan(st, piece, rook, x) ==
    LET r == castleStep(st, piece, rook, x)
    IN  CASE r.status = "exit" -> "clear"
          [] r.status = "break" -> "blocked"
          [] OTHER -> IF r.x = x THEN "diverges"
                      ELSE castleScan(st, piece, rook, r.x)

castleResult(st, piece, rook) ==
    castleScan(st, piece, rook, piece.pos.x + castleDx(piece, rook))

castleGuard(st, piece) == piece.hasMoved \/ isKingInCheck(st, piece.color)

getCastlingMoves(st, piece) ==
    IF castleGuard(st, piece) THEN {}
    ELSE { Pos(piece.pos.x + 2 * castleDx(piece, rook), piece.pos.y)
           : rook \in {r \in castleRooks(st, piece) :
                          castleResult(st, piece, r) = "clear"} }

\* getCastlingMoves never returns: some rook's loop never ends
castlingDiverges(st, piece) ==
    /\ ~castleGuard(st, piece)
    /\ \E r \in castleRooks(st, piece) : castleResult(st, piece, r) = "diverges"

(***************************************************************************)
(* ChessEngine.getValidMoves                                               *)
(***************************************************************************)
candidateMoves(st, piece, ignoreCheck) ==
    IF piece.type = KING /\ ~ignoreCheck
    THEN rawMoves(st, piece) \cup getCastlingMoves(st, piece)
    ELSE rawMoves(st, piece)

\* moves.filter(targetPos => !isKingInCheck(simulateMove(...), piece.color))
filterMoves(st, piece, moves) ==
    {targetPos \in moves :
        ~isKingInCheck(simulateMove(st, [from |-> piece.pos, to |-> targetPos,
                                         piece |-> piece]),
                       piece.color)}

\* a variant that appends the castling hops after the filter
getValidMovesCastlingUnfiltered(st, pos, ignoreCheck) ==
    IF ~hasPieceAt(st, pos) THEN {}
    ELSE LET piece == getPieceAt(st, pos)
         IN  IF ignoreCheck THEN rawMoves(st, piece)
             ELSE filterMoves(st, piece, rawMoves(st, piece))
                      \cup (IF piece.type = KING THEN getCastlingMoves(st, piece)
                            ELSE {})

\* a variant that applies the check filter whatever ignoreCheck says
getValidMovesFilterAlways(st, pos, ignoreCheck) ==
    IF ~hasPieceAt(st, pos) THEN {}
    ELSE LET piece == getPieceAt(st, pos)
         IN  filterMoves(st, piece, candidateMoves(st, piece, ignoreCheck))

\* a variant that answers for a square without a piece as for a king on it
getValidMovesOfEmptySquare(st, pos, ignoreCheck) ==
    IF ~hasPieceAt(st, pos)
    THEN {p \in {Pos(pos.x + d.x, pos.y + d.y) : d \in KingDiffs} :
             posToKey(p) \in st.cells}
    ELSE LET piece == getPieceAt(st, pos)
             moves == candidateMoves(st, piece, ignoreCheck)
         IN  IF ignoreCheck THEN moves
             ELSE filterMoves(st, piece, moves)

getValidMoves(st, pos, ignoreCheck) ==
    IF ~hasPieceAt(st, pos) THEN {}
    ELSE LET piece == getPieceAt(st, pos)
             moves == candidateMoves(st, piece, ignoreCheck)
         IN  IF ignoreCheck THEN moves
             ELSE filterMoves(st, piece, moves)

\* the call getValidMoves(st, pos, false) does not return
validMovesHangs(st, pos) ==
    /\ hasPieceAt(st, pos)
    /\ getPieceAt(st, pos).type = KING
    /\ castlingDiverges(st, getPieceAt(st, pos))

(***************************************************************************)
(* The engine's call sites: for each operation, the operations its body    *)
(* calls.  getValidMoves is listed once per value of ignoreCheck: the call *)
(* of getCastlingMoves and the filter are skipped when it is true.         *)
(***************************************************************************)
engineCalls ==
    [ x \in {"getValidMoves(true)", "getValidMoves(false)", "getPawnMoves",
             "getSlidingMoves", "getKnightMoves", "getKingMoves",
             "getCastlingMoves", "isKingInCheck", "getPieceAt", "simulateMove",
             "isCheckmate", "isStalemate", "expandBoard"} |->
        CASE x = "getValidMoves(true)" ->
                {"getPawnMoves", "getSlidingMoves", "getKnightMoves", "getKingMoves"}
          [] x = "getValidMoves(false)" ->
                {"getPawnMoves", "getSlidingMoves", "getKnightMoves", "getKingMoves",
                 "getCastlingMoves", "simulateMove", "isKingInCheck"}
          [] x \in {"getPawnMoves", "getSlidingMoves", "getKnightMoves",
                    "getKingMoves", "simulateMove"} -> {"getPieceAt"}
          [] x = "getCastlingMoves" -> {"isKingInCheck", "getPieceAt", "simulateMove"}
          [] x = "isKingInCheck" -> {"getValidMoves(true)"}
          [] x \in {"isCheckmate", "isStalemate"} ->
                {"isKingInCheck", "getValidMoves(false)"}
          [] OTHER -> {} ]

(***************************************************************************)
(* ChessEngine.isCheckmate / isStalemate                                   *)
(***************************************************************************)
\* for (const p of pieces) if (getValidMoves(state, p.pos).length > 0) return false;
\* return true
RECURSIVE noMoveLoop(_, _)
noMoveLoop(st, todo) ==
    IF todo = {} THEN TRUE
    ELSE LET p == CHOOSE q \in todo : TRUE
         IN  IF Cardinality(getValidMoves(st, p.pos, FALSE)) > 0 THEN FALSE
             ELSE noMoveLoop(st, todo \ {p})

\* a variant without the test that the king is in check
isCheckmateNoGuard(st, color) ==
    noMoveLoop(st, {p \in st.pieces : p.color = color})

isCheckmate(st, color) ==
    IF ~isKingInCheck(st, color) THEN FALSE
    ELSE noMoveLoop(st, {p \in st.pieces : p.color = color})

\* a variant without the test that the king is not in check
isStalemateNoGuard(st, color) ==
    noMoveLoop(st, {p \in st.pieces : p.color = color})

isStalemate(st, color) ==
    IF isKingInCheck(st, color) THEN FALSE
    ELSE noMoveLoop(st, {p \in st.pieces : p.color = color})

\* isStalemate reaches a getValidMoves call that does not return; isCheckmate
\* only generates moves for a colour in check, where castling returns at once
colourHangs(st, color) ==
    \E p \in st.pieces : p.color = color /\ validMovesHangs(st, p.pos)

(***************************************************************************)
(* ChessEngine.expandBoard.  ex holds the locals of one call: cells (the   *)
(* argument), count, i, added and newCellsSet.                             *)
(***************************************************************************)
MaxCount == 8
MaxAttempts == 50

neighbors(randomCell) ==
    << Pos(randomCell.x + 1, randomCell.y),
       Pos(randomCell.x - 1, randomCell.y),
       Pos(randomCell.x, randomCell.y + 1),
       Pos(randomCell.x, randomCell.y - 1) >>

\* a variant whose result set starts empty instead of as a copy of cells
expandBeginFresh(cells, count) ==
    [pc |-> "loop", cells |-> cells, count |-> count, i |-> 0, added |-> 0,
     newCellsSet |-> {}]

expandBegin(cells, count) ==
    [pc |-> "loop", cells |-> cells, count |-> count, i |-> 0, added |-> 0,
     newCellsSet |-> cells]

\* a variant whose loop stops one attempt early
expandContinuesShort(ex) == ex.i < MaxAttempts - 1 /\ ex.added < ex.count

expandContinues(ex) == ex.i < MaxAttempts /\ ex.added < ex.count

\* a variant that counts a draw even when the cell is already in the set
expandAttemptCountsCollisions(ex, randomCell, n) ==
    LET target == neighbors(randomCell)[n]
        key == posToKey(target)
    IN  [ex EXCEPT !.newCellsSet = @ \cup {key}, !.added = @ + 1, !.i = @ + 1]

\* a variant that draws the base cell among the cells of the growing result
expandBaseCellsOfResult(ex) == ex.newCellsSet

\* currentCells: Array.from(cells), taken once before the loop
expandBaseCells(ex) == ex.cells

\* a variant whose newCellsSet is the argument itself, not a copy of it
expandAttemptInPlace(ex, randomCell, n) ==
    LET target == neighbors(randomCell)[n]
        key == posToKey(target)
    IN  IF key \notin ex.newCellsSet
        THEN [ex EXCEPT !.newCellsSet = @ \cup {key}, !.cells = @ \cup {key},
                        !.added = @ + 1, !.i = @ + 1]
        ELSE [ex EXCEPT !.i = @ + 1]

\* one pass of the loop body with the two random draws made
expandAttempt(ex, randomCell, n) ==
    LET target == neighbors(randomCell)[n]
        key == posToKey(target)
    IN  IF key \notin ex.newCellsSet
        THEN [ex EXCEPT !.newCellsSet = @ \cup {key}, !.added = @ + 1,
                        !.i = @ + 1]
        ELSE [ex EXCEPT !.i = @ + 1]

ExpIdle ==
    [pc |-> "idle", cells |-> {}, count |-> 0, i |-> 0, added |-> 0,
     newCellsSet |-> {}]

(***************************************************************************)
(* Snapshots the engine is applied to.  Every one satisfies the engine's   *)
(* input preconditions: pieces on cells, unique positions, unique ids, at  *)
(* most one king per colour.                                               *)
(***************************************************************************)
mkPiece(id, type, color, x, y, hasMoved) ==
    [id |-> id, type |-> type, color |-> color, pos |-> Pos(x, y),
     hasMoved |-> hasMoved]

mkState(cells, pieces, turn, lastMove) ==
    [cells |-> cells, pieces |-> pieces, turn |-> turn, lastMove |-> lastMove,
     gold |-> [white |-> 0, black |-> 0]]

Rect(x0, x1, y0, y1) == {<<x, y>> : x \in x0..x1, y \in y0..y1}

\* a white king with one white rook and one black piece on a 5 x 2 board
CastleBoard == Rect(0, 4, 2, 3)

CastleSnapshots ==
    { mkState(CastleBoard,
              { mkPiece("wk", KING, WHITE, kx, 3, fl[1]),
                mkPiece("wr", ROOK, WHITE, r[1], r[2], fl[2]),
                mkPiece("b1", bt, BLACK, b[1], b[2], TRUE) },
              WHITE, NoMove)
      : <<kx, fl, r, bt, b>> \in
          { t \in (0..1) \X {<<FALSE, FALSE>>, <<TRUE, FALSE>>, <<FALSE, TRUE>>}
                  \X CastleBoard \X {ROOK, KNIGHT, PAWN} \X CastleBoard :
              /\ t[2] = <<FALSE, FALSE>> \/ t[4] = ROOK
              /\ t[3] # <<t[1], 3>>
              /\ t[5] # <<t[1], 3>>
              /\ t[5] # t[3] } }

\* a black pawn that has just advanced two squares beside a white pawn
EnPassantBoard == Rect(0, 3, 1, 3)

EnPassantSnapshots ==
    { mkState(EnPassantBoard,
              { mkPiece("bp", PAWN, BLACK, bx, 3, TRUE),
                mkPiece("wp", PAWN, WHITE, wx, 3, TRUE),
                mkPiece("b1", bt, BLACK, b[1], b[2], TRUE) }
                \cup (IF k = <<>> THEN {}
                      ELSE {mkPiece("wk", KING, WHITE, k[1], k[2], TRUE)}),
              WHITE,
              [from |-> Pos(bx, 1), to |-> Pos(bx, 3),
               piece |-> mkPiece("bp", PAWN, BLACK, bx, 1, FALSE)])
      : <<bx, wx, bt, b, k>> \in
          { t \in (0..3) \X (0..3) \X {ROOK, BISHOP} \X EnPassantBoard
                  \X (Rect(0, 3, 3, 3) \cup {<<>>}) :
              /\ t[1] # t[2]
              /\ t[4] \notin {<<t[1], 3>>, <<t[2], 3>>, <<t[1], 2>>, <<t[1], 1>>}
              /\ t[5] \notin {<<t[1], 3>>, <<t[2], 3>>, <<t[1], 2>>, t[4]} } }

\* the mirror image: a white pawn has just advanced from its start rank 6
EnPassantBlackBoard == Rect(0, 3, 4, 6)

EnPassantBlackSnapshots ==
    { mkState(EnPassantBlackBoard,
              { mkPiece("wp", PAWN, WHITE, wx, 4, TRUE),
                mkPiece("bp", PAWN, BLACK, bx, 4, TRUE) },
              BLACK,
              [from |-> Pos(wx, 6), to |-> Pos(wx, 4),
               piece |-> mkPiece("wp", PAWN, WHITE, wx, 6, FALSE)])
      : <<wx, bx>> \in {t \in (0..3) \X (0..3) : t[1] # t[2]} }

\* a king at (4,0) and an enemy queen at (4,7) on a single open file
FileBoard == Rect(4, 4, 0, 7)

FileSnapshots ==
    { mkState(FileBoard,
              { mkPiece("k", KING, c, 4, 0, TRUE),
                mkPiece("q", QUEEN, opponent(c), 4, 7, TRUE) },
              c, NoMove) : c \in Color }

\* a white king against a black queen, with or without the black king
SmallBoard == Rect(0, 2, 0, 2)

SmallSnapshots ==
    { mkState(SmallBoard,
              { mkPiece("wk", KING, WHITE, k[1], k[2], TRUE),
                mkPiece("bq", QUEEN, BLACK, q[1], q[2], TRUE) }
                \cup (IF b = <<>> THEN {}
                      ELSE {mkPiece("bk", KING, BLACK, b[1], b[2], TRUE)}),
              WHITE, NoMove)
      : <<k, q, b>> \in
          { t \in SmallBoard \X SmallBoard \X (Rect(0, 2, 2, 2) \cup {<<>>}) :
              t[1] # t[2] /\ t[3] # t[1] /\ t[3] # t[2] } }

\* a white rook, bishop or queen at (0,0) with a white and a black pawn
SlideBoard == Rect(0, 1, 0, 5)

SlideSnapshots ==
    { mkState(SlideBoard,
              { mkPiece("ws", t, WHITE, 0, 0, TRUE),
                mkPiece("wp", PAWN, WHITE, f[1], f[2], TRUE),
                mkPiece("bp", PAWN, BLACK, e[1], e[2], TRUE) },
              WHITE, NoMove)
      : <<t, f, e>> \in {ROOK, BISHOP, QUEEN} \X {<<0, 3>>, <<1, 0>>}
                          \X {<<0, 5>>, <<1, 1>>, <<0, 1>>} }

\* a pawn on its start rank, flagged as moved or not, and one other pawn
RankBoard(c) == IF c = WHITE THEN Rect(0, 2, 3, 6) ELSE Rect(0, 2, 1, 4)

RankSnapshots ==
    { mkState(RankBoard(c),
              { mkPiece("p", PAWN, c, 1, IF c = WHITE THEN 6 ELSE 1, h),
                mkPiece("o", PAWN, oc, o[1],
                        IF c = WHITE THEN 6 - o[2] ELSE 1 + o[2], TRUE) },
              c, NoMove)
      : <<c, h, oc, o>> \in Color \X BOOLEAN \X Color
                             \X {<<1, 1>>, <<1, 2>>, <<0, 1>>, <<2, 2>>} }

\* black pawn (3,1) -> (3,3) was the last move; a white pawn stands at (4,3)
PassedBoard == Rect(3, 4, 1, 3)

PassedSnapshots ==
    { mkState(PassedBoard,
              { mkPiece("bp", PAWN, BLACK, 3, 3, TRUE),
                mkPiece("wp", PAWN, WHITE, 4, 3, TRUE) },
              WHITE,
              [from |-> Pos(3, 1), to |-> Pos(3, 3),
               piece |-> mkPiece("bp", PAWN, BLACK, 3, 1, FALSE)]) }

Snapshots ==
    CastleSnapshots \cup EnPassantSnapshots \cup EnPassantBlackSnapshots
        \cup FileSnapshots \cup SmallSnapshots \cup SlideSnapshots
        \cup RankSnapshots \cup PassedSnapshots

(***************************************************************************)
(* The call in progress (used by the call-level specification below)       *)
(***************************************************************************)
NoPiece == [id |-> "none"]

CallIdle ==
    [pc |-> "idle", op |-> "none", color |-> WHITE, todo |-> {},
     piece |-> NoPiece, rooks |-> {}, rook |-> NoPiece, x |-> 0,
     castling |-> {}, result |-> FALSE]

\* the simulateMove call made last: its move, the snapshot it returned, the
\* argument as it stands after the call, and the result's newly made parts
NoSim == [none |-> TRUE]

(***************************************************************************)
(* The single-screen game loop's component state beside the snapshot:      *)
(* selected, validMoves, gameOver and shopActive.  initial is the snapshot *)
(* the game started from (createInitialState), bought counts the ghosts    *)
(* placed so far (their ids are distinct time stamps), and hung is set     *)
(* when a handler has entered an engine call that never returns: no later  *)
(* event is then served.                                                   *)
(***************************************************************************)
NoSel == [none |-> TRUE]

UiIdle ==
    [selected |-> NoSel, validMoves |-> {}, gameOver |-> "none",
     shopActive |-> "none", initial |-> NoMove, bought |-> 0, hung |-> FALSE]

(***************************************************************************)
(* The two-peer game with the shop: each peer runs its own copy of the     *)
(* component.  peer[c] is the component state of the peer that plays       *)
(* colour c (myColor): its snapshot, selected, validMoves, shopActive and  *)
(* gameOver, and hung as above.  inbox[c] holds the messages sent to that  *)
(* peer and not yet handed to its 'data' handler, oldest first (the        *)
(* connection is opened with reliable: true).  bought counts the ghosts    *)
(* placed by either peer, purchased holds their ids, and removed the ids   *)
(* of the pieces an executeMove has taken off the board.                   *)
(***************************************************************************)
PeerIdle ==
    [state |-> NoMove, selected |-> NoSel, validMoves |-> {},
     shopActive |-> "none", gameOver |-> "none", hung |-> FALSE]

P2pIdle ==
    [peer |-> [white |-> PeerIdle, black |-> PeerIdle],
     inbox |-> [white |-> <<>>, black |-> <<>>],
     bought |-> 0, purchased |-> {}, removed |-> {}]

(***************************************************************************)
(* The ply loop over the engine: a generated destination is applied with   *)
(* simulateMove, the turn flips and the move is recorded as lastMove; a    *)
(* growth event replaces cells by expandBoard's output.                    *)
(***************************************************************************)
Init ==
    /\ state \in Snapshots
    /\ plies = 0
    /\ grown = 0
    /\ call = CallIdle
    /\ sim = NoSim
    /\ exp = ExpIdle
    /\ ui = UiIdle
    /\ p2p = P2pIdle

applyPly(st, piece, to) ==
    LET move == [from |-> piece.pos, to |-> to, piece |-> piece]
    IN  [simulateMove(st, move) EXCEPT !.turn = opponent(st.turn),
                                       !.lastMove = move]

ApplyMove ==
    /\ plies < MaxPlies
    /\ \E piece \in state.pieces :
          /\ piece.color = state.turn
          /\ ~validMovesHangs(state, piece.pos)
          /\ \E to \in getValidMoves(state, piece.pos, FALSE) :
                state' = applyPly(state, piece, to)
    /\ plies' = plies + 1
    /\ UNCHANGED <<grown, call, sim, exp, ui, p2p>>

\* Array.from(cells): the cells in insertion order, rows first
cellBefore(a, b) == a[2] < b[2] \/ (a[2] = b[2] /\ a[1] < b[1])

firstCells(cells, k) ==
    {c \in cells : Cardinality({d \in cells : cellBefore(d, c)}) < k}

\* expandBoard with target count 1 whose first attempt adds a cell
GrowBoard ==
    /\ grown < MaxGrowths
    /\ \E c \in firstCells(state.cells, MaxGrowBase), n \in 1..4 :
          LET ex == expandAttempt(expandBegin(state.cells, 1), keyToPos(c), n)
          IN  /\ ~expandContinues(ex)
              /\ state' = [state EXCEPT !.cells = ex.newCellsSet]
    /\ grown' = grown + 1
    /\ UNCHANGED <<plies, call, sim, exp, ui, p2p>>

Next == ApplyMove \/ GrowBoard

Spec == Init /\ [][Next]_vars

(***************************************************************************)
(* C1: every destination getValidMoves(state, pos) returns leaves the      *)
(* mover's own king out of check once the move is applied with             *)
(* simulateMove.                                                           *)
(***************************************************************************)
LegalMovesKeepKingSafe ==
    \A piece \in state.pieces :
        ~validMovesHangs(state, piece.pos) =>
            \A d \in getValidMoves(state, piece.pos, FALSE) :
                ~isKingInCheck(simulateMove(state, [from |-> piece.pos, to |-> d,
                                                    piece |-> piece]),
                               piece.color)

\* the filter of getValidMoves has removed a candidate and kept another
FilterHasActed ==
    \E piece \in state.pieces :
        /\ ~validMovesHangs(state, piece.pos)
        /\ getValidMoves(state, piece.pos, FALSE) # {}
        /\ candidateMoves(state, piece, FALSE)
               \ getValidMoves(state, piece.pos, FALSE) # {}
        /\ plies > 0

(***************************************************************************)
(* C2: every piece's position is a member of the cell set, in every        *)
(* snapshot reached by plies that apply generated destinations and by      *)
(* growth events.                                                          *)
(***************************************************************************)
PiecesStayOnCells ==
    \A p \in state.pieces : posToKey(p.pos) \in state.cells

(***************************************************************************)
(* C4: a castling destination is returned only if the king is unmoved and  *)
(* not in check, an unmoved rook of its colour lies on that side with      *)
(* every cell strictly between them unoccupied, and neither the square     *)
(* the king crosses nor the square it lands on is attacked.  A square is   *)
(* attacked when the king, moved there with simulateMove, is in check.     *)
(***************************************************************************)
squareAttacked(st, king, sq) ==
    isKingInCheck(simulateMove(st, [from |-> king.pos, to |-> sq, piece |-> king]),
                  king.color)

castlingDestinations(st, king) ==
    IF validMovesHangs(st, king.pos) THEN {}
    ELSE getValidMoves(st, king.pos, FALSE) \cap getCastlingMoves(st, king)

CastlingOnlyWhenAllowed ==
    \A king \in state.pieces :
        king.type = KING =>
            \A d \in castlingDestinations(state, king) :
                LET dx == IF d.x > king.pos.x THEN 1 ELSE -1
                IN  /\ ~king.hasMoved
                    /\ ~isKingInCheck(state, king.color)
                    /\ \E rook \in state.pieces :
                          /\ rook.type = ROOK
                          /\ rook.color = king.color
                          /\ ~rook.hasMoved
                          /\ (rook.pos.x - king.pos.x) * dx > 0
                          /\ \A x \in (king.pos.x - SatLimit)..(king.pos.x + SatLimit) :
                                ((x - king.pos.x) * dx > 0 /\ (rook.pos.x - x) * dx > 0)
                                    => ~hasPieceAt(state, Pos(x, king.pos.y))
                    /\ ~squareAttacked(state, king, Pos(king.pos.x + dx, king.pos.y))
                    /\ ~squareAttacked(state, king, d)

(***************************************************************************)
(* C6: isCheckmate(s, c) is true exactly when c's king is in check and no  *)
(* piece of colour c has a legal destination; isStalemate(s, c) is true    *)
(* exactly when c's king is not in check and no piece of colour c has a    *)
(* legal destination.                                                      *)
(***************************************************************************)
noLegalDestination(st, color) ==
    \A p \in st.pieces :
        p.color = color => getValidMoves(st, p.pos, FALSE) = {}

TerminalEvaluatorsMatch ==
    \A c \in Color :
        /\ isCheckmate(state, c)
              <=> (isKingInCheck(state, c) /\ noLegalDestination(state, c))
        /\ ~colourHangs(state, c) =>
              (isStalemate(state, c)
                  <=> (~isKingInCheck(state, c) /\ noLegalDestination(state, c)))

\* king at (4,0) attacked down a clear file by a queen at (4,7): checkmate
FileCheckmate ==
    /\ state.cells = FileBoard
    /\ \E k \in state.pieces, q \in state.pieces :
          /\ k.type = KING /\ k.pos = Pos(4, 0)
          /\ q.type = QUEEN /\ q.pos = Pos(4, 7) /\ q.color # k.color
          /\ ~colourHangs(state, k.color)
          /\ isCheckmate(state, k.color)
          /\ ~isStalemate(state, k.color)

(***************************************************************************)
(* C7: isCheckmate(s, c) and isStalemate(s, c) are never both true.        *)
(***************************************************************************)
CheckmateExcludesStalemate ==
    \A c \in Color : ~(isCheckmate(state, c) /\ isStalemate(state, c))

\* after a ply, a colour that has pieces, is not in check and has no legal move
StalemateReached ==
    /\ \E c \in Color :
          /\ \E p \in state.pieces : p.color = c
          /\ ~colourHangs(state, c)
          /\ isStalemate(state, c)
          /\ ~isCheckmate(state, c)
    /\ plies > 0

(***************************************************************************)
(* C11: across accepted moves and growth events the cell set only grows:   *)
(* every cell of state.cells before a step is in state.cells after it.     *)
(***************************************************************************)
CellsOnlyGrow == [][state.cells \subseteq state'.cells]_vars

InitialBoards ==
    {CastleBoard, EnPassantBoard, EnPassantBlackBoard, FileBoard, SmallBoard,
     SlideBoard, RankBoard(WHITE), RankBoard(BLACK), PassedBoard}

\* a game in which a move was accepted and a growth event added a cell
CellsHaveGrown ==
    /\ plies > 0
    /\ grown > 0
    /\ \E b \in InitialBoards :
          b \subseteq state.cells /\ Cardinality(state.cells) = Cardinality(b) + 1

(***************************************************************************)
(* C13: for a rook, bishop or queen the raw move set is, for each of its   *)
(* direction vectors, exactly the maximal run of consecutive cells that    *)
(* exist and are empty, plus the first occupied cell on the ray when it    *)
(* holds an enemy piece; nothing beyond the first occupied or the first    *)
(* missing cell.                                                           *)
(***************************************************************************)
rayAt(piece, dir, k) == Pos(piece.pos.x + k * dir.x, piece.pos.y + k * dir.y)

\* the cell at distance k is reached: every cell up to it exists, every cell
\* before it is empty, and it holds no piece of the mover's colour
rayReaches(st, piece, dir, k) ==
    /\ \A j \in 1..k : posToKey(rayAt(piece, dir, j)) \in st.cells
    /\ \A j \in 1..(k - 1) : ~hasPieceAt(st, rayAt(piece, dir, j))
    /\ notOwnAt(st, rayAt(piece, dir, k), piece.color)

rayCells(st, piece, dir) ==
    { rayAt(piece, dir, k)
      : k \in {j \in 1..Cardinality(st.cells) : rayReaches(st, piece, dir, j)} }

slideDirs(type) ==
    CASE type = ROOK -> RookDirs
      [] type = BISHOP -> BishopDirs
      [] type = QUEEN -> QueenDirs

SlidingMovesExact ==
    \A p \in state.pieces :
        p.type \in {ROOK, BISHOP, QUEEN} =>
            getValidMoves(state, p.pos, TRUE)
                = UNION {rayCells(state, p, d) : d \in slideDirs(p.type)}

\* rook at (0,0), friendly piece at (0,3), enemy at (0,5): the +y ray yields
\* exactly (0,1) and (0,2)
RookRayStopsAtFriend ==
    /\ \E p \in state.pieces : p.type = ROOK /\ p.color = WHITE /\ p.pos = Pos(0, 0)
    /\ \E p \in state.pieces : p.color = WHITE /\ p.pos = Pos(0, 3)
    /\ \E p \in state.pieces : p.color = BLACK /\ p.pos = Pos(0, 5)
    /\ {posToKey(Pos(0, y)) : y \in 0..5} \subseteq state.cells
    /\ {m \in getValidMoves(state, Pos(0, 0), TRUE) : m.x = 0}
           = {Pos(0, 1), Pos(0, 2)}

(***************************************************************************)
(* C14: raw pawn moves.  White advances toward y-1 from start rank 6,      *)
(* black toward y+1 from start rank 1.  The one-step cell is included iff  *)
(* it exists and is empty; the two-step cell iff the pawn's y is its start *)
(* rank (whatever hasMoved says) and both cells exist and are empty; an    *)
(* occupied diagonal-forward cell iff it exists and holds an enemy; an     *)
(* empty diagonal only when en passant applies; nothing else.              *)
(***************************************************************************)
forwardOf(color) == IF color = WHITE THEN -1 ELSE 1

startRank(color) == IF color = WHITE THEN 6 ELSE 1

freeCell(st, pos) == posToKey(pos) \in st.cells /\ ~hasPieceAt(st, pos)

diagonalsOf(p) ==
    {Pos(p.pos.x - 1, p.pos.y + forwardOf(p.color)),
     Pos(p.pos.x + 1, p.pos.y + forwardOf(p.color))}

\* the last move was a pawn's two-square advance that ended beside pawn p, on
\* the file of the cell c
passedBy(st, p, c) ==
    /\ st.lastMove # NoMove
    /\ st.lastMove.piece.type = PAWN
    /\ Abs(st.lastMove.from.y - st.lastMove.to.y) = 2
    /\ st.lastMove.to.x = c.x
    /\ st.lastMove.to.y = p.pos.y

PawnMovesExact ==
    \A p \in state.pieces :
        p.type = PAWN =>
            LET raw == getValidMoves(state, p.pos, TRUE)
                one == Pos(p.pos.x, p.pos.y + forwardOf(p.color))
                two == Pos(p.pos.x, p.pos.y + 2 * forwardOf(p.color))
            IN  /\ one \in raw <=> freeCell(state, one)
                /\ two \in raw <=> /\ p.pos.y = startRank(p.color)
                                   /\ freeCell(state, one)
                                   /\ freeCell(state, two)
                /\ \A d \in diagonalsOf(p) :
                      /\ hasPieceAt(state, d) =>
                            (d \in raw <=> /\ posToKey(d) \in state.cells
                                           /\ getPieceAt(state, d).color # p.color)
                      /\ (~hasPieceAt(state, d) /\ d \in raw) =>
                            (posToKey(d) \in state.cells /\ passedBy(state, p, d))
                /\ raw \subseteq {one, two} \cup diagonalsOf(p)

\* a pawn flagged as moved stands on its start rank and may advance two cells
MovedPawnAdvancesTwo ==
    \E p \in state.pieces :
        /\ p.type = PAWN
        /\ p.hasMoved
        /\ p.pos.y = startRank(p.color)
        /\ getValidMoves(state, p.pos, TRUE)
               = {Pos(p.pos.x, p.pos.y + forwardOf(p.color)),
                  Pos(p.pos.x, p.pos.y + 2 * forwardOf(p.color))}

(***************************************************************************)
(* C15: an empty, existing diagonal-forward cell c is in a pawn's raw move *)
(* set iff lastMove is non-null, lastMove.piece is a pawn,                 *)
(* |lastMove.from.y - lastMove.to.y| = 2, lastMove.to.x = c.x and          *)
(* lastMove.to.y is the moving pawn's current y.                           *)
(***************************************************************************)
EnPassantExact ==
    \A p \in state.pieces :
        p.type = PAWN =>
            \A c \in diagonalsOf(p) :
                freeCell(state, c) =>
                    (c \in getValidMoves(state, p.pos, TRUE)
                        <=> /\ state.lastMove # NoMove
                            /\ state.lastMove.piece.type = PAWN
                            /\ Abs(state.lastMove.from.y - state.lastMove.to.y) = 2
                            /\ state.lastMove.to.x = c.x
                            /\ state.lastMove.to.y = p.pos.y)

\* black pawn (3,1) -> (3,3) as lastMove gives the white pawn at (4,3) the
\* empty destination (3,2)
PassedPawnOffersDiagonal ==
    /\ state.lastMove # NoMove
    /\ state.lastMove.piece.type = PAWN /\ state.lastMove.piece.color = BLACK
    /\ state.lastMove.from = Pos(3, 1) /\ state.lastMove.to = Pos(3, 3)
    /\ ~hasPieceAt(state, Pos(3, 2))
    /\ \E p \in state.pieces : p.type = PAWN /\ p.color = WHITE /\ p.pos = Pos(4, 3)
    /\ Pos(3, 2) \in getValidMoves(state, Pos(4, 3), TRUE)

(***************************************************************************)
(* C16: whenever getValidMoves yields an en passant destination (a pawn's  *)
(* empty diagonal-forward cell) and the move is applied with simulateMove, *)
(* exactly one piece is removed: an enemy pawn standing at (to.x, from.y), *)
(* the pawn that made the last two-square advance; the capturing pawn ends *)
(* on the destination, and no friendly piece and no non-pawn is removed.   *)
(***************************************************************************)
EnPassantTakesPassedPawn ==
    \A p \in state.pieces :
        p.type = PAWN =>
            \A d \in getValidMoves(state, p.pos, FALSE) \cap diagonalsOf(p) :
                ~hasPieceAt(state, d) =>
                    LET r == simulateMove(state, [from |-> p.pos, to |-> d,
                                                  piece |-> p])
                    IN  /\ Cardinality(r.pieces) = Cardinality(state.pieces) - 1
                        /\ \E v \in state.pieces :
                              /\ v.pos = Pos(d.x, p.pos.y)
                              /\ v.type = PAWN
                              /\ v.color # p.color
                              /\ v.id = state.lastMove.piece.id
                              /\ \A q \in r.pieces : q.id # v.id
                        /\ \E q \in r.pieces : q.id = p.id /\ q.pos = d
                        /\ \A q \in state.pieces :
                              (q.color = p.color \/ q.type # PAWN) =>
                                  \E q2 \in r.pieces : q2.id = q.id

(***************************************************************************)
(* C17: for a knight (8 L-shaped offsets) and a king (8 adjacent offsets)  *)
(* the raw move set is exactly the set of offset targets that are members  *)
(* of the cell set and are not occupied by a piece of the mover's colour.  *)
(***************************************************************************)
offsetTargets(p) ==
    { Pos(p.pos.x + dx, p.pos.y + dy)
      : <<dx, dy>> \in
          { t \in (-2..2) \X (-2..2) :
              IF p.type = KNIGHT
              THEN Abs(t[1]) + Abs(t[2]) = 3 /\ t[1] # 0 /\ t[2] # 0
              ELSE t # <<0, 0>> /\ Abs(t[1]) <= 1 /\ Abs(t[2]) <= 1 } }

OffsetMovesExact ==
    \A p \in state.pieces :
        p.type \in {KNIGHT, KING} =>
            /\ Cardinality(offsetTargets(p)) = 8
            /\ getValidMoves(state, p.pos, TRUE)
                  = {t \in offsetTargets(p) :
                        /\ posToKey(t) \in state.cells
                        /\ ~\E q \in state.pieces : q.pos = t /\ q.color = p.color}

\* a king beside a friendly piece, an enemy piece and the edge of the board:
\* the enemy's cell is a destination, the other two are not
KingBesideFriendEnemyAndEdge ==
    \E k \in state.pieces :
        /\ k.type = KING
        /\ \E t \in offsetTargets(k) : posToKey(t) \notin state.cells
        /\ \E q \in state.pieces :
              /\ q.color = k.color /\ q.pos \in offsetTargets(k)
              /\ q.pos \notin getValidMoves(state, k.pos, TRUE)
        /\ \E q \in state.pieces :
              /\ q.color # k.color /\ q.pos \in getValidMoves(state, k.pos, TRUE)
        /\ plies > 0

(***************************************************************************)
(* C18: isKingInCheck(s, c) is true iff a king of colour c exists in s and *)
(* some piece of the opposite colour has that king's position in its raw   *)
(* move set getValidMoves(s, p.pos, true); with no king of colour c it is  *)
(* false, and so is isCheckmate(s, c).                                     *)
(***************************************************************************)
hasKing(st, c) == \E k \in st.pieces : k.type = KING /\ k.color = c

CheckMeansKingAttacked ==
    \A c \in Color :
        /\ isKingInCheck(state, c)
              <=> \E k \in state.pieces :
                     /\ k.type = KING /\ k.color = c
                     /\ \E p \in state.pieces :
                           /\ p.color # c
                           /\ k.pos \in getValidMoves(state, p.pos, TRUE)
        /\ ~hasKing(state, c) =>
              (~isKingInCheck(state, c) /\ ~isCheckmate(state, c))

\* after a move one colour's king is attacked while the other colour has no
\* king at all
CheckBesideKinglessColour ==
    \E c \in Color :
        /\ hasKing(state, c) /\ isKingInCheck(state, c)
        /\ ~hasKing(state, opponent(c))
        /\ \E p \in state.pieces : p.color = opponent(c)
        /\ ~isKingInCheck(state, opponent(c))
        /\ plies > 0

(***************************************************************************)
(* C21: getValidMoves(state, pos, ignoreCheck) returns the empty list, for *)
(* both values of ignoreCheck, whenever no piece of state stands on pos,   *)
(* positions outside the cell set included.  The positions asked are the   *)
(* cells and every position within two steps of a cell.                    *)
(***************************************************************************)
probePositions(st) ==
    { Pos(c[1] + dx, c[2] + dy) : c \in st.cells, dx \in -2..2, dy \in -2..2 }

EmptySquareHasNoMoves ==
    \A pos \in probePositions(state) :
        ~hasPieceAt(state, pos) =>
            /\ getValidMoves(state, pos, TRUE) = {}
            /\ getValidMoves(state, pos, FALSE) = {}

\* a piece has left its square, which is asked next to a position off the board
VacatedSquareAsked ==
    /\ plies > 0
    /\ posToKey(state.lastMove.from) \in state.cells
    /\ ~hasPieceAt(state, state.lastMove.from)
    /\ getValidMoves(state, state.lastMove.from, FALSE) = {}
    /\ \E pos \in probePositions(state) :
          /\ posToKey(pos) \notin state.cells
          /\ getValidMoves(state, pos, TRUE) = {}

(***************************************************************************)
(* C23: getValidMoves with ignoreCheck = true returns exactly the piece's  *)
(* raw movement-rule set, with no castling destination and no check        *)
(* filter, and makes no call of isKingInCheck, so that isKingInCheck ->    *)
(* getValidMoves(true) recurses no further; getValidMoves with             *)
(* ignoreCheck = false returns exactly the members d of the raw set plus   *)
(* the castling destinations for which the mover's king is not in check    *)
(* after simulateMove to d.  The raw set is written from the rules of      *)
(* C13, C14, C15 and C17; engineCalls lists, for each operation, the       *)
(* operations its body calls.                                              *)
(***************************************************************************)
pawnRuleSet(st, p) ==
    LET one == Pos(p.pos.x, p.pos.y + forwardOf(p.color))
        two == Pos(p.pos.x, p.pos.y + 2 * forwardOf(p.color))
    IN  {c \in {one} : freeCell(st, one)}
          \cup {c \in {two} : /\ p.pos.y = startRank(p.color)
                              /\ freeCell(st, one) /\ freeCell(st, two)}
          \cup {d \in diagonalsOf(p) :
                  /\ posToKey(d) \in st.cells
                  /\ \/ \E q \in st.pieces : q.pos = d /\ q.color # p.color
                     \/ ~hasPieceAt(st, d) /\ passedBy(st, p, d)}

movementRuleSet(st, p) ==
    CASE p.type = PAWN -> pawnRuleSet(st, p)
      [] p.type \in {ROOK, BISHOP, QUEEN} ->
            UNION {rayCells(st, p, d) : d \in slideDirs(p.type)}
      [] OTHER -> {t \in offsetTargets(p) :
                     /\ posToKey(t) \in st.cells
                     /\ ~\E q \in st.pieces : q.pos = t /\ q.color = p.color}

RECURSIVE calledFrom(_)
calledFrom(ops) ==
    LET more == ops \cup UNION {engineCalls[o] : o \in ops}
    IN  IF more = ops THEN ops ELSE calledFrom(more)

IgnoreCheckIsRawAndFilterIsExact ==
    /\ \A p \in state.pieces :
          /\ getValidMoves(state, p.pos, TRUE) = movementRuleSet(state, p)
          /\ ~validMovesHangs(state, p.pos) =>
                getValidMoves(state, p.pos, FALSE)
                    = {d \in movementRuleSet(state, p)
                               \cup (IF p.type = KING THEN getCastlingMoves(state, p)
                                     ELSE {}) :
                          ~isKingInCheck(simulateMove(state, [from |-> p.pos,
                                                              to |-> d,
                                                              piece |-> p]),
                                         p.color)}
    /\ "isKingInCheck" \notin calledFrom(engineCalls["getValidMoves(true)"])
    /\ "getCastlingMoves" \notin calledFrom(engineCalls["getValidMoves(true)"])
    /\ "isKingInCheck" \notin calledFrom(engineCalls["isKingInCheck"])

\* a king that may castle, with an adjacent cell that the filter removes:
\* the hop is absent with ignoreCheck, the attacked cell is present
KingCastlesBesideAttackedCell ==
    \E k \in state.pieces :
        /\ k.type = KING
        /\ ~validMovesHangs(state, k.pos)
        /\ getCastlingMoves(state, k) \cap getValidMoves(state, k.pos, FALSE) # {}
        /\ getCastlingMoves(state, k) \cap getValidMoves(state, k.pos, TRUE) = {}
        /\ getValidMoves(state, k.pos, TRUE) \ getValidMoves(state, k.pos, FALSE)
               # {}

(***************************************************************************)
(* C24: no destination returned by getValidMoves(ignoreCheck = false) is   *)
(* occupied by a piece of the mover's colour, whatever the piece type and  *)
(* for castling hops as well; applying a generated move with simulateMove  *)
(* removes no piece of the mover's own colour.  Asked for the pieces of    *)
(* the colour to move.                                                     *)
(***************************************************************************)
NoMoveOntoOwnPiece ==
    \A p \in state.pieces :
        (p.color = state.turn /\ ~validMovesHangs(state, p.pos)) =>
            \A d \in getValidMoves(state, p.pos, FALSE) :
                /\ notOwnAt(state, d, p.color)
                /\ \A q \in state.pieces :
                      q.color = p.color =>
                          \E r \in simulateMove(state, [from |-> p.pos, to |-> d,
                                                        piece |-> p]).pieces :
                              r.id = q.id

(***************************************************************************)
(* C25: from a snapshot with unique piece ids and no two pieces on one     *)
(* position, after any sequence of moves taken from                        *)
(* getValidMoves(ignoreCheck = false) and applied with simulateMove, the   *)
(* piece ids are still unique and no two pieces share a position.          *)
(***************************************************************************)
UniqueIdsAndPositions ==
    \A p \in state.pieces, q \in state.pieces :
        (p.id = q.id \/ (p.pos.x = q.pos.x /\ p.pos.y = q.pos.y)) => p = q

\* the second ply was a pawn's capture, and at least two pieces are left
PawnHasCaptured ==
    /\ plies >= 2
    /\ state.lastMove.piece.type = PAWN
    /\ state.lastMove.from.x # state.lastMove.to.x
    /\ \E p \in state.pieces :
          p.id = state.lastMove.piece.id /\ p.pos = state.lastMove.to
    /\ Cardinality(state.pieces) >= 2

(***************************************************************************)
(* simulateMove as a call on its own: any occupied from-square, any cell   *)
(* as destination, the moving piece being the piece on the from-square.    *)
(***************************************************************************)
SimInit ==
    /\ state \in Snapshots
    /\ plies = 0
    /\ grown = 0
    /\ call = CallIdle
    /\ sim = NoSim
    /\ exp = ExpIdle
    /\ ui = UiIdle
    /\ p2p = P2pIdle

SimulateMoveCall ==
    /\ sim = NoSim
    /\ \E piece \in state.pieces, toKey \in state.cells :
          LET move == [from |-> piece.pos, to |-> keyToPos(toKey), piece |-> piece]
          IN  sim' = [move |-> move, result |-> simulateMove(state, move),
                      arg |-> simulateMoveArgument(state, move),
                      fresh |-> simulateMoveFresh(state, move)]
    /\ UNCHANGED <<state, plies, grown, call, exp, ui, p2p>>

SimNext == SimulateMoveCall

SimSpec == SimInit /\ [][SimNext]_vars

(***************************************************************************)
(* C5: the number of pieces after simulateMove is the number before,       *)
(* minus 1 if a piece stood on the destination, minus 1 if the move is a   *)
(* pawn changing file onto an empty cell and a piece stands at             *)
(* (to.x, from.y); no other piece is removed.                              *)
(***************************************************************************)
boolToInt(b) == IF b THEN 1 ELSE 0

enPassantApplies(st, move) ==
    /\ move.piece.type = PAWN
    /\ move.from.x # move.to.x
    /\ ~hasPieceAt(st, move.to)
    /\ hasPieceAt(st, Pos(move.to.x, move.from.y))

SimulateMoveCount ==
    sim # NoSim =>
        /\ Cardinality(sim.result.pieces) =
              Cardinality(state.pieces)
                  - boolToInt(hasPieceAt(state, sim.move.to))
                  - boolToInt(enPassantApplies(state, sim.move))
        /\ \A p \in state.pieces :
              \/ \E q \in sim.result.pieces : q.id = p.id
              \/ p.pos = sim.move.to
              \/ /\ enPassantApplies(state, sim.move)
                 /\ p.pos = Pos(sim.move.to.x, sim.move.from.y)

(***************************************************************************)
(* C19: after simulateMove(s, m), where piece P stands on m.from, the      *)
(* result holds a piece with P's id, type and colour at m.to with hasMoved *)
(* set, and every other piece of the result is identical to a piece of s.  *)
(* Moves from a cell to itself are left aside.                             *)
(***************************************************************************)
SimulateMoveRelocatesMover ==
    (sim # NoSim /\ sim.move.to # sim.move.from) =>
        /\ \E q \in sim.result.pieces :
              /\ q.id = sim.move.piece.id
              /\ q.type = sim.move.piece.type
              /\ q.color = sim.move.piece.color
              /\ q.pos = sim.move.to
              /\ q.hasMoved
        /\ \A q \in sim.result.pieces :
              q.id # sim.move.piece.id => q \in state.pieces

(***************************************************************************)
(* C20: simulateMove returns a snapshot whose turn, cells, lastMove and    *)
(* gold equal the input's; a pawn moved onto any rank keeps type pawn; a   *)
(* king moved two files sideways leaves every rook's position and hasMoved *)
(* flag unchanged (a rook standing on the destination is captured).        *)
(***************************************************************************)
SimulateMoveLeavesTheRest ==
    sim # NoSim =>
        /\ sim.result.turn = state.turn
        /\ sim.result.cells = state.cells
        /\ sim.result.lastMove = state.lastMove
        /\ sim.result.gold = state.gold
        /\ sim.move.piece.type = PAWN =>
              \A q \in sim.result.pieces :
                  q.id = sim.move.piece.id => q.type = PAWN
        /\ (/\ sim.move.piece.type = KING
            /\ Abs(sim.move.to.x - sim.move.from.x) = 2
            /\ sim.move.to.y = sim.move.from.y) =>
              /\ \A q \in sim.result.pieces : q.type = ROOK => q \in state.pieces
              /\ \A r \in state.pieces :
                    (r.type = ROOK /\ r.pos # sim.move.to) => r \in sim.result.pieces

\* a king was moved two files toward an unmoved rook of its colour, which
\* stands where it stood, still unmoved
KingHopLeavesRook ==
    /\ sim # NoSim
    /\ sim.move.piece.type = KING
    /\ Abs(sim.move.to.x - sim.move.from.x) = 2
    /\ sim.move.to.y = sim.move.from.y
    /\ \E q \in sim.result.pieces :
          q.id = sim.move.piece.id /\ q.pos = sim.move.to
    /\ \E r \in sim.result.pieces :
          /\ r.type = ROOK /\ r.color = sim.move.piece.color /\ ~r.hasMoved
          /\ r.pos.y = sim.move.from.y
          /\ (r.pos.x - sim.move.to.x) * (sim.move.to.x - sim.move.from.x) > 0

(***************************************************************************)
(* The engine's calls step by step on a fixed snapshot: getValidMoves      *)
(* (switch, getCastlingMoves with its rooks.forEach and its for loop, then *)
(* the filter), isKingInCheck, and the for-of loops of isCheckmate and     *)
(* isStalemate, which call getValidMoves for each piece in turn.           *)
(***************************************************************************)
CallSnapshots == CastleSnapshots \cup FileSnapshots \cup SmallSnapshots

CallInit ==
    /\ state \in CallSnapshots
    /\ plies = 0
    /\ grown = 0
    /\ call = CallIdle
    /\ sim = NoSim
    /\ exp = ExpIdle
    /\ ui = UiIdle
    /\ p2p = P2pIdle

\* a caller invokes one of the four operations
CallInvoke ==
    /\ call.pc = "idle"
    /\ \/ \E c \in Color :
             call' = [CallIdle EXCEPT !.pc = "returned", !.op = "isKingInCheck",
                                      !.color = c,
                                      !.result = isKingInCheck(state, c)]
       \/ \E p \in state.pieces :
             call' = [CallIdle EXCEPT !.pc = "switch", !.op = "getValidMoves",
                                      !.color = p.color, !.piece = p]
       \/ \E c \in Color :
             call' = IF ~isKingInCheck(state, c)
                     THEN [CallIdle EXCEPT !.pc = "returned", !.op = "isCheckmate",
                                           !.color = c, !.result = FALSE]
                     ELSE [CallIdle EXCEPT !.pc = "pieces", !.op = "isCheckmate",
                                           !.color = c,
                                           !.todo = {p \in state.pieces : p.color = c}]
       \/ \E c \in Color :
             call' = IF isKingInCheck(state, c)
                     THEN [CallIdle EXCEPT !.pc = "returned", !.op = "isStalemate",
                                           !.color = c, !.result = FALSE]
                     ELSE [CallIdle EXCEPT !.pc = "pieces", !.op = "isStalemate",
                                           !.color = c,
                                           !.todo = {p \in state.pieces : p.color = c}]
    /\ UNCHANGED <<state, plies, grown, sim, exp, ui, p2p>>

\* for (const p of pieces): the next piece, or return true
CallPieces ==
    /\ call.pc = "pieces"
    /\ \/ /\ call.todo = {}
          /\ call' = [call EXCEPT !.pc = "returned", !.result = TRUE]
       \/ \E p \in call.todo :
             call' = [call EXCEPT !.pc = "switch", !.piece = p,
                                  !.todo = @ \ {p}, !.castling = {}]
    /\ UNCHANGED <<state, plies, grown, sim, exp, ui, p2p>>

\* getValidMoves: the switch; a king enters getCastlingMoves
CallSwitch ==
    /\ call.pc = "switch"
    /\ call' = IF call.piece.type = KING /\ ~castleGuard(state, call.piece)
               THEN [call EXCEPT !.pc = "rooks",
                                 !.rooks = castleRooks(state, call.piece)]
               ELSE [call EXCEPT !.pc = "filter"]
    /\ UNCHANGED <<state, plies, grown, sim, exp, ui, p2p>>

\* rooks.forEach: the next rook, with x = piece.pos.x + dx
CallRooks ==
    /\ call.pc = "rooks"
    /\ \/ /\ call.rooks = {}
          /\ call' = [call EXCEPT !.pc = "filter", !.rook = NoPiece]
       \/ \E r \in call.rooks :
             call' = [call EXCEPT !.pc = "scan", !.rook = r, !.rooks = @ \ {r},
                                  !.x = call.piece.pos.x + castleDx(call.piece, r)]
    /\ UNCHANGED <<state, plies, grown, sim, exp, ui, p2p>>

\* one evaluation of the for loop over x
CallScan ==
    /\ call.pc = "scan"
    /\ LET r == castleStep(state, call.piece, call.rook, call.x)
       IN  call' =
             CASE r.status = "exit" ->
                    [call EXCEPT !.pc = "rooks",
                                 !.castling = @ \cup
                                     {Pos(call.piece.pos.x
                                            + 2 * castleDx(call.piece, call.rook),
                                          call.piece.pos.y)}]
               [] r.status = "break" -> [call EXCEPT !.pc = "rooks"]
               [] OTHER -> [call EXCEPT !.x = r.x]
    /\ UNCHANGED <<state, plies, grown, sim, exp, ui, p2p>>

\* the filter and the return of getValidMoves, to the caller or to the loop
CallFilter ==
    /\ call.pc = "filter"
    /\ LET moves == filterMoves(state, call.piece,
                                rawMoves(state, call.piece) \cup call.castling)
       IN  call' =
             IF call.op = "getValidMoves"
             THEN [call EXCEPT !.pc = "returned", !.result = moves]
             ELSE IF Cardinality(moves) > 0
                  THEN [call EXCEPT !.pc = "returned", !.result = FALSE]
                  ELSE [call EXCEPT !.pc = "pieces"]
    /\ UNCHANGED <<state, plies, grown, sim, exp, ui, p2p>>

\* the caller takes the result
CallReturn ==
    /\ call.pc = "returned"
    /\ call' = CallIdle
    /\ UNCHANGED <<state, plies, grown, sim, exp, ui, p2p>>

CallRun == CallPieces \/ CallSwitch \/ CallRooks \/ CallScan \/ CallFilter

CallNext == CallInvoke \/ CallRun \/ CallReturn

CallSpec == CallInit /\ [][CallNext]_vars

\* a call that has been invoked keeps running: the engine is synchronous
FairCallSpec == CallSpec /\ WF_vars(CallRun)

(***************************************************************************)
(* C3: every invoked getValidMoves, isKingInCheck, isCheckmate and         *)
(* isStalemate call returns, wherever the unmoved rooks stand.             *)
(* With a rook on the king's own file the for loop of getCastlingMoves     *)
(* walks x away from rook.pos.x; its test x !== rook.pos.x stays true, and *)
(* once |x| has reached SatLimit the pass x += dx leaves every local as it *)
(* was: the loop runs for ever without changing the state.                 *)
(***************************************************************************)
CallsTerminate == [](call.pc # "idle" => <>(call.pc = "returned"))

(***************************************************************************)
(* expandBoard step by step: the call draws count, each pass of the loop   *)
(* draws a cell of the argument and one of its four neighbours.  Reading   *)
(* .x of currentCells[0] throws when the argument is empty.                *)
(***************************************************************************)
ExpandInputs ==
    { {}, {<<0, 0>>}, {<<0, 0>>, <<1, 0>>}, {<<0, 0>>, <<1, 0>>, <<0, 1>>} }

ExpandInit ==
    /\ state \in {mkState(cells, {}, WHITE, NoMove) : cells \in ExpandInputs}
    /\ plies = 0
    /\ grown = 0
    /\ call = CallIdle
    /\ sim = NoSim
    /\ exp = ExpIdle
    /\ ui = UiIdle
    /\ p2p = P2pIdle

ExpandCall ==
    /\ exp.pc = "idle"
    /\ \E count \in 1..MaxCount : exp' = expandBegin(state.cells, count)
    /\ UNCHANGED <<state, plies, grown, call, sim, ui, p2p>>

ExpandLoop ==
    /\ exp.pc = "loop"
    /\ expandContinues(exp)
    /\ IF expandBaseCells(exp) = {}
       THEN exp' = [exp EXCEPT !.pc = "threw"]
       ELSE \E c \in expandBaseCells(exp), n \in 1..4 :
               exp' = expandAttempt(exp, keyToPos(c), n)
    /\ UNCHANGED <<state, plies, grown, call, sim, ui, p2p>>

ExpandReturn ==
    /\ exp.pc = "loop"
    /\ ~expandContinues(exp)
    /\ exp' = [exp EXCEPT !.pc = "returned"]
    /\ UNCHANGED <<state, plies, grown, call, sim, ui, p2p>>

ExpandNext == ExpandCall \/ ExpandLoop \/ ExpandReturn

ExpandSpec == ExpandInit /\ [][ExpandNext]_vars

(***************************************************************************)
(* C8: the newCells expandBoard returns contains every input cell, and     *)
(* addedCount equals |newCells| - |input cells|.                           *)
(***************************************************************************)
ExpandReturnsSuperset ==
    exp.pc = "returned" =>
        /\ exp.cells \subseteq exp.newCellsSet
        /\ state.cells \subseteq exp.newCellsSet
        /\ exp.added = Cardinality(exp.newCellsSet) - Cardinality(state.cells)

\* a call has returned with cells added after some attempts hit existing cells
ExpandReturnedAfterCollisions ==
    /\ exp.pc = "returned"
    /\ exp.added >= 2
    /\ exp.i > exp.added

(***************************************************************************)
(* C9 as stated: expandBoard returns a strict superset of its input,       *)
(* addedCount >= 1.                                                        *)
(***************************************************************************)
ExpandAlwaysAdds ==
    exp.pc = "returned" =>
        /\ exp.added >= 1
        /\ state.cells \subseteq exp.newCellsSet
        /\ exp.newCellsSet # state.cells

(***************************************************************************)
(* C9 as amended: expandBoard returns a superset of its input that is      *)
(* strict (addedCount >= 1) unless every one of the 50 attempts drew a     *)
(* neighbour already in the set.                                           *)
(***************************************************************************)
ExpandAddsUnlessExhausted ==
    exp.pc = "returned" =>
        /\ state.cells \subseteq exp.newCellsSet
        /\ \/ exp.added >= 1 /\ exp.newCellsSet # state.cells
           \/ exp.i = MaxAttempts /\ exp.added = 0 /\ exp.newCellsSet = state.cells

\* all 50 attempts drew a cell already in the set
ExpandReturnedUnchanged ==
    /\ exp.pc = "returned"
    /\ exp.added = 0
    /\ exp.i = MaxAttempts
    /\ exp.newCellsSet = state.cells

(***************************************************************************)
(* C10: expandBoard never fails and always returns: at most 50 attempts,   *)
(* 0 <= addedCount <= target <= 8, the loop stops as soon as the target is *)
(* reached, and with no free neighbour found the input is returned with    *)
(* addedCount = 0.                                                         *)
(***************************************************************************)
ExpandNeverFails ==
    /\ exp.pc # "threw"
    /\ exp.pc \in {"loop", "returned"} =>
          /\ exp.i <= MaxAttempts
          /\ 0 <= exp.added /\ exp.added <= exp.count /\ exp.count <= MaxCount
    /\ exp.pc = "returned" =>
          /\ exp.added = exp.count \/ exp.i = MaxAttempts
          /\ exp.added = 0 => exp.newCellsSet = state.cells

(***************************************************************************)
(* C26: every cell that expandBoard adds is orthogonally adjacent          *)
(* (distance 1 along x or y) to a cell of the input set: the base cell is  *)
(* always drawn from the input cells, never from cells added earlier in    *)
(* the same call, so one call extends the board by at most one layer.      *)
(***************************************************************************)
orthogonallyAdjacent(a, b) == Abs(a[1] - b[1]) + Abs(a[2] - b[2]) = 1

ExpandAddsOneLayer ==
    exp.pc \in {"loop", "returned"} =>
        \A k \in exp.newCellsSet \ state.cells :
            \E c \in state.cells : orthogonallyAdjacent(k, c)

\* a call on a single cell has returned with all four of its neighbours added
ExpandFilledTheLayer ==
    /\ exp.pc = "returned"
    /\ Cardinality(state.cells) = 1
    /\ exp.added = 4
    /\ exp.i > 4

(***************************************************************************)
(* simulateMove and expandBoard called on one snapshot: the snapshot is    *)
(* the caller's, state holds its content before any call, sim.arg and      *)
(* exp.cells hold the content of the arguments as the calls leave them.    *)
(***************************************************************************)
\* a black pawn, with or without a white rook beside it, on two cells
ArgBoard == {<<0, 0>>, <<1, 0>>}

ArgSnapshots ==
    { mkState(ArgBoard,
              { mkPiece("bp", PAWN, BLACK, m, 0, FALSE) }
                \cup (IF r THEN {mkPiece("wr", ROOK, WHITE, 1 - m, 0, TRUE)}
                      ELSE {}),
              BLACK, NoMove)
      : <<m, r>> \in (0..1) \X BOOLEAN }

ArgInit ==
    /\ state \in ArgSnapshots
    /\ plies = 0
    /\ grown = 0
    /\ call = CallIdle
    /\ sim = NoSim
    /\ exp = ExpIdle
    /\ ui = UiIdle
    /\ p2p = P2pIdle

ArgNext == SimulateMoveCall \/ ExpandCall \/ ExpandLoop \/ ExpandReturn

ArgSpec == ArgInit /\ [][ArgNext]_vars

MaxGhosts == 1
MaxGold == 4

GoldUnit == 4

PIECE_COSTS ==
    [pawn |-> 1, knight |-> 3, bishop |-> 3, rook |-> 5, queen |-> 9, king |-> 0]

ShopTypes == {PAWN, KNIGHT, BISHOP, ROOK, QUEEN}

isGhost(p) == "isGhost" \in DOMAIN p

realPiecesOnly(st) == {p \in st.pieces : ~isGhost(p)}

ghostPieces(st) == {p \in st.pieces : isGhost(p)}

\* { ...state, pieces: realPiecesOnly }
realState(st) == [st EXCEPT !.pieces = realPiecesOnly(st)]

canPlaceAt(pos, color) == IF color = WHITE THEN pos.y >= 2 ELSE pos.y <= 5

hasMyGhost(st) == \E p \in st.pieces : isGhost(p) /\ p.color = st.turn

newGhost(type, color, pos, n) ==
    [id |-> "ghost-" \o ToString(n), type |-> type, color |-> color, pos |-> pos,
     hasMoved |-> FALSE, isGhost |-> TRUE, materializeIn |-> 3]

\* { ...g, isGhost: false, materializeIn: undefined }
asReal(g) == [id |-> g.id, type |-> g.type, color |-> g.color, pos |-> g.pos,
              hasMoved |-> g.hasMoved]

(***************************************************************************)
(* executeMove, step 1: the move and its special rules.  The castling rook *)
(* is the first unmoved rook of the mover's colour found on the side of    *)
(* the hop; rook is that piece, or NoPiece when find returns undefined.    *)
(***************************************************************************)
castlingRookChoices(real, activePiece, from, to) ==
    LET dx == IF to.x > from.x THEN 1 ELSE -1
    IN  {p \in real : /\ p.type = ROOK
                      /\ p.color = activePiece.color
                      /\ ~p.hasMoved
                      /\ IF dx = 1 THEN p.pos.x > from.x ELSE p.pos.x < from.x}

extremeY(cells, x, color) ==
    LET ys == {c[2] : c \in {d \in cells : d[1] = x}}
    IN  IF color = WHITE THEN CHOOSE y \in ys : \A z \in ys : y <= z
        ELSE CHOOSE y \in ys : \A z \in ys : y >= z

\* a variant that promotes on the last rank of the 8 x 8 board only
reachesExtremeOfStartBoard(cells, to, color) ==
    to.y = IF color = WHITE THEN 0 ELSE 7

reachesExtreme(cells, to, color) ==
    /\ \E c \in cells : c[1] = to.x
    /\ to.y = extremeY(cells, to.x, color)

nextRealPieces(st, from, to, rook) ==
    LET realPieces == realPiecesOnly(st)
        activePiece == CHOOSE p \in realPieces : p.pos.x = from.x /\ p.pos.y = from.y
        hasTarget == \E p \in realPieces : p.pos.x = to.x /\ p.pos.y = to.y
        moved == { IF p.pos.x = from.x /\ p.pos.y = from.y
                   THEN [p EXCEPT !.pos = to, !.hasMoved = TRUE] ELSE p
                   : p \in {q \in realPieces : ~(q.pos.x = to.x /\ q.pos.y = to.y)} }
        afterEnPassant ==
            IF activePiece.type = PAWN /\ from.x # to.x /\ ~hasTarget
            THEN {p \in moved : ~(p.pos.x = to.x /\ p.pos.y = from.y)}
            ELSE moved
        dx == IF to.x > from.x THEN 1 ELSE -1
        afterCastling ==
            IF /\ activePiece.type = KING
               /\ Abs(from.x - to.x) = 2
               /\ rook # NoPiece
            THEN { IF p.id = rook.id
                   THEN [p EXCEPT !.pos = Pos(to.x - dx, to.y), !.hasMoved = TRUE]
                   ELSE p : p \in afterEnPassant }
            ELSE afterEnPassant
    IN  IF activePiece.type = PAWN /\ reachesExtreme(st.cells, to, activePiece.color)
        THEN { IF p.pos.x = to.x /\ p.pos.y = to.y THEN [p EXCEPT !.type = QUEEN]
               ELSE p : p \in afterCastling }
        ELSE afterCastling

(***************************************************************************)
(* executeMove, step 2: every ghost counts down; a ghost that reaches 0    *)
(* removes whatever real piece stands on its cell and becomes real.        *)
(***************************************************************************)
nextGhosts(st) ==
    { [g EXCEPT !.materializeIn = (IF @ = 0 THEN 1 ELSE @) - 1]
      : g \in ghostPieces(st) }

\* becomingReal.forEach: todo is what is left of becomingReal, acc the record
\* [pieces |-> tempRealPieces, winner |-> colour of a ghost that took a king]
RECURSIVE materialize(_, _)
materialize(acc, todo) ==
    IF todo = {} THEN acc
    ELSE LET g == CHOOSE h \in todo : TRUE
             captured == {p \in acc.pieces : p.pos.x = g.pos.x /\ p.pos.y = g.pos.y}
             kept == acc.pieces \ captured
         IN  materialize([pieces |-> kept \cup {asReal(g)},
                          winner |-> IF \E p \in captured : p.type = KING
                                     THEN g.color ELSE acc.winner],
                         todo \ {g})

(***************************************************************************)
(* executeMove, step 3: the next snapshot.  newCells is state.cells, or    *)
(* the output of expandBoard(state.cells) when the 5% draw succeeds.       *)
(* lastMove's captured field is never read and is left out.                *)
(***************************************************************************)
moveOutcome(st, from, to, rook, newCells) ==
    LET activePiece == CHOOSE p \in realPiecesOnly(st) :
                           p.pos.x = from.x /\ p.pos.y = from.y
        ghosts == nextGhosts(st)
        mat == materialize([pieces |-> nextRealPieces(st, from, to, rook),
                            winner |-> "none"],
                           {g \in ghosts : g.materializeIn <= 0})
        finalPieces == {g \in ghosts : g.materializeIn > 0} \cup mat.pieces
    IN  [tempRealPieces |-> mat.pieces,
         winner |-> mat.winner,
         nextState |-> [st EXCEPT !.pieces = finalPieces,
                                  !.turn = opponent(st.turn),
                                  !.lastMove = [from |-> from, to |-> to,
                                                piece |-> activePiece],
                                  !.cells = newCells]]

\* expandBoard with target count 1 whose first attempt adds a cell
growthChoices(cells) ==
    { expandAttempt(expandBegin(cells, 1), keyToPos(c), n).newCellsSet
      : <<c, n>> \in
          { t \in firstCells(cells, MaxGrowBase) \X (1..4) :
              ~expandContinues(expandAttempt(expandBegin(cells, 1),
                                             keyToPos(t[1]), t[2])) } }

rookChoices(st, from, to) ==
    LET real == realPiecesOnly(st)
        activePiece == CHOOSE p \in real : p.pos.x = from.x /\ p.pos.y = from.y
        found == castlingRookChoices(real, activePiece, from, to)
    IN  IF activePiece.type = KING /\ Abs(from.x - to.x) = 2 /\ found # {}
        THEN found ELSE {NoPiece}

winsMessage(color) == IF color = WHITE THEN "white wins" ELSE "black wins"

ghostWinsMessage(color) ==
    IF color = WHITE THEN "white wins by ghost" ELSE "black wins by ghost"

(***************************************************************************)
(* executeMove, step 4: isCheckmate, then isStalemate, for the colour now  *)
(* to move.  The result is the message to set ("none" when neither holds)  *)
(* or "hang": isStalemate walks the pieces in array order, so with a piece *)
(* whose getValidMoves never returns it hangs unless a piece with a legal  *)
(* move comes first.                                                       *)
(***************************************************************************)
\* a variant that asks isStalemate only
terminalOutcomesDrawOnly(es, mover) ==
    LET c == opponent(mover)
        own == {p \in es.pieces : p.color = c}
        hangers == {p \in own : validMovesHangs(es, p.pos)}
        movers == {p \in own \ hangers : getValidMoves(es, p.pos, FALSE) # {}}
    IN  IF isKingInCheck(es, c) THEN {"none"}
        ELSE IF hangers = {} THEN {IF movers = {} THEN "draw" ELSE "none"}
        ELSE {"hang"} \cup (IF movers # {} THEN {"none"} ELSE {})

terminalOutcomes(es, mover) ==
    LET c == opponent(mover)
        own == {p \in es.pieces : p.color = c}
        hangers == {p \in own : validMovesHangs(es, p.pos)}
        movers == {p \in own \ hangers : getValidMoves(es, p.pos, FALSE) # {}}
    IN  IF isCheckmate(es, c) THEN {winsMessage(mover)}
        ELSE IF isKingInCheck(es, c) THEN {"none"}
        ELSE IF hangers = {} THEN {IF movers = {} THEN "draw" ELSE "none"}
        ELSE {"hang"} \cup (IF movers # {} THEN {"none"} ELSE {})

ExecuteMove(from, to) ==
    /\ plies < MaxPlies
    /\ \E rook \in rookChoices(state, from, to),
          newCells \in {state.cells}
                         \cup (IF grown < MaxGrowths THEN growthChoices(state.cells)
                               ELSE {}) :
          LET o == moveOutcome(state, from, to, rook, newCells)
              es == [o.nextState EXCEPT !.pieces = o.tempRealPieces]
          IN  \E t \in (IF o.winner # "none" THEN {ghostWinsMessage(o.winner)}
                        ELSE terminalOutcomes(es, state.turn)) :
                 IF t = "hang"
                 THEN /\ ui' = [ui EXCEPT !.hung = TRUE]
                      /\ UNCHANGED <<state, plies, grown>>
                 ELSE /\ state' = o.nextState
                      /\ ui' = [ui EXCEPT !.selected = NoSel, !.validMoves = {},
                                          !.gameOver = t]
                      /\ plies' = plies + 1
                      /\ grown' = IF newCells = state.cells THEN grown
                                  ELSE grown + 1

(***************************************************************************)
(* handleCellClick                                                         *)
(***************************************************************************)
\* the shop branch: a click while shopActive is set
ShopPlace(pos) ==
    LET cost == GoldUnit * PIECE_COSTS[ui.shopActive]
    IN  IF hasMyGhost(state)
        THEN /\ ui' = [ui EXCEPT !.shopActive = "none"]
             /\ UNCHANGED <<state, plies, grown>>
        ELSE IF ~canPlaceAt(pos, state.turn) \/ state.gold[state.turn] < cost
             THEN UNCHANGED <<state, ui, plies, grown>>
             ELSE /\ state' = [state EXCEPT
                        !.pieces = @ \cup {newGhost(ui.shopActive, state.turn, pos,
                                                    ui.bought)},
                        !.gold[state.turn] = @ - cost]
                  /\ ui' = [ui EXCEPT !.shopActive = "none", !.bought = @ + 1]
                  /\ UNCHANGED <<plies, grown>>

\* a variant that lets a piece of either colour be selected
selectableAnyColour(st, pos) ==
    \E p \in realPiecesOnly(st) : p.pos.x = pos.x /\ p.pos.y = pos.y

\* piece && piece.color === state.turn
selectable(st, pos) ==
    \E p \in realPiecesOnly(st) :
        p.pos.x = pos.x /\ p.pos.y = pos.y /\ p.color = st.turn

\* the last branch: select the clicked piece, or clear the selection
SelectPiece(pos) ==
    /\ IF selectable(state, pos)
       THEN IF validMovesHangs(realState(state), pos)
            THEN ui' = [ui EXCEPT !.hung = TRUE]
            ELSE ui' = [ui EXCEPT !.selected = pos,
                                  !.validMoves =
                                      getValidMoves(realState(state), pos, FALSE)]
       ELSE ui' = [ui EXCEPT !.selected = NoSel, !.validMoves = {}]
    /\ UNCHANGED <<state, plies, grown>>

\* only cells of the board are rendered with an onClick
CellClick ==
    /\ ~ui.hung
    /\ \E key \in state.cells :
          LET pos == keyToPos(key)
          IN  IF ui.gameOver # "none" THEN UNCHANGED <<state, ui, plies, grown>>
              ELSE IF ui.shopActive # "none" THEN ShopPlace(pos)
              ELSE IF ui.selected # NoSel /\ pos \in ui.validMoves
                   THEN ExecuteMove(ui.selected, pos)
                   ELSE SelectPiece(pos)
    /\ UNCHANGED <<call, sim, exp, p2p>>

(***************************************************************************)
(* The other handlers: the gold interval, the shop buttons (disabled       *)
(* without the gold or with a ghost of the colour to move on the board),   *)
(* the cancel button, and resetGame.                                       *)
(***************************************************************************)
GoldTick ==
    /\ ~ui.hung
    /\ state.gold[WHITE] < MaxGold /\ state.gold[BLACK] < MaxGold
    /\ state' = [state EXCEPT !.gold = [white |-> @[WHITE] + 1,
                                        black |-> @[BLACK] + 1]]
    /\ UNCHANGED <<plies, grown, call, sim, exp, ui, p2p>>

ShopButton ==
    /\ ~ui.hung
    /\ ui.bought < MaxGhosts
    /\ ~hasMyGhost(state)
    /\ \E type \in ShopTypes :
          /\ state.gold[state.turn] >= GoldUnit * PIECE_COSTS[type]
          /\ ui' = [ui EXCEPT !.shopActive = type]
    /\ UNCHANGED <<state, plies, grown, call, sim, exp, p2p>>

ShopCancel ==
    /\ ~ui.hung
    /\ ui.shopActive # "none"
    /\ ui' = [ui EXCEPT !.shopActive = "none"]
    /\ UNCHANGED <<state, plies, grown, call, sim, exp, p2p>>

ResetGame ==
    /\ ~ui.hung
    /\ state' = ui.initial
    /\ ui' = [UiIdle EXCEPT !.initial = ui.initial, !.bought = ui.bought]
    /\ plies' = 0
    /\ grown' = 0
    /\ UNCHANGED <<call, sim, exp, p2p>>

(***************************************************************************)
(* Games the loop is started on: white to move, no last move, no gold.     *)
(***************************************************************************)
\* two white pawns and a black pawn: double step, en passant and promotion
PawnBoard == Rect(0, 2, 3, 6)

PawnSnapshots ==
    { mkState(PawnBoard,
              { mkPiece("w-p-0", PAWN, WHITE, 0, 6, FALSE),
                mkPiece("b-p-1", PAWN, BLACK, 1, 4, TRUE),
                mkPiece("w-p-2", PAWN, WHITE, 2, y, TRUE) },
              WHITE, NoMove) : y \in 4..5 }

\* a board grown with a notch: (1,0) is missing between (0,0) and (2,0); a
\* black rook stands at (0,0), the white king at (2,1)
GapBoard == Rect(0, 2, 0, 1) \ {<<1, 0>>}

GapSnapshots ==
    { mkState(GapBoard,
              { mkPiece("wk", KING, WHITE, 2, 1, TRUE),
                mkPiece("br", ROOK, BLACK, 0, 0, TRUE) },
              WHITE, NoMove) }

\* a game two plies after white placed a pawn ghost: the ghost materialises
\* at the end of white's next move, on the black king's cell or on a free one
GhostSnapshots ==
    { mkState(SmallBoard,
              { mkPiece("wk", KING, WHITE, 0, 0, TRUE),
                mkPiece("bk", KING, BLACK, 2, 2, TRUE),
                [newGhost(PAWN, WHITE, Pos(g[1], g[2]), 0)
                    EXCEPT !.materializeIn = 1] },
              WHITE, NoMove)
      : g \in {<<2, 2>>, <<1, 2>>} }

UiSnapshots ==
    PawnSnapshots \cup GapSnapshots \cup GhostSnapshots
      \cup { s \in CastleSnapshots :
               /\ \A p \in s.pieces : p.color = WHITE => ~p.hasMoved
               /\ \E p \in s.pieces : p.type = KNIGHT /\ p.pos = Pos(3, 2) }
      \cup { s \in SmallSnapshots :
               /\ \E p \in s.pieces : p.id = "wk" /\ p.pos = Pos(0, 0)
               /\ \E p \in s.pieces : p.id = "bk" /\ p.pos = Pos(2, 2) }
      \cup { s \in FileSnapshots : s.turn = WHITE }

UiInit ==
    /\ state \in UiSnapshots
    /\ plies = 0
    /\ grown = 0
    /\ call = CallIdle
    /\ sim = NoSim
    /\ exp = ExpIdle
    /\ ui = [UiIdle EXCEPT !.initial = state,
                           !.bought = Cardinality(ghostPieces(state))]
    /\ p2p = P2pIdle

UiNext == CellClick \/ GoldTick \/ ShopButton \/ ShopCancel \/ ResetGame

UiSpec == UiInit /\ [][UiNext]_vars

(***************************************************************************)
(* C27: after a full ply as executeMove performs it (a destination taken   *)
(* from getValidMoves is applied, the turn flips, and cells may be         *)
(* replaced by expandBoard's output), the colour that has just moved is    *)
(* not in check in the resulting snapshot: adding cells to the board does  *)
(* not turn a position in which a king is safe into one in which it is     *)
(* attacked.  Check is asked on the real pieces, as executeMove asks it.   *)
(***************************************************************************)
MoverSafeAfterFullPly ==
    plies > 0 => ~isKingInCheck(realState(state), opponent(state.turn))

(***************************************************************************)
(* C28 as stated: in the single-screen game loop the terminal evaluator is *)
(* run after every executed move for the colour now to move on the         *)
(* post-move snapshot: if that colour has no legal move, gameOver is set,  *)
(* to a win for the mover when the colour is in check and to a draw when   *)
(* it is not; and while gameOver is set no click changes pieces, turn or   *)
(* cells until resetGame.  The evaluator reads the real pieces of the new  *)
(* snapshot.                                                               *)
(***************************************************************************)
isResetStep == state' = ui.initial /\ plies' = 0 /\ ui'.gameOver = "none"

GameOverSetAndKept ==
    [][ /\ plies' = plies + 1 =>
              LET c == state'.turn
                  es == realState(state')
              IN  noLegalDestination(es, c) =>
                      ui'.gameOver = IF isKingInCheck(es, c)
                                     THEN winsMessage(state.turn)
                                     ELSE "draw"
        /\ ui.gameOver # "none" =>
              \/ isResetStep
              \/ /\ state'.pieces = state.pieces
                 /\ state'.turn = state.turn
                 /\ state'.cells = state.cells
                 /\ ui'.gameOver = ui.gameOver ]_vars

(***************************************************************************)
(* C28 as amended: when a ghost that materialises at the end of the move   *)
(* takes a king, gameOver is set to a win by ghost for the ghost's colour  *)
(* and the terminal evaluator is not run; after every other executed move  *)
(* the evaluator is run as stated; while gameOver is set no click changes  *)
(* pieces, turn or cells until resetGame.                                  *)
(***************************************************************************)
\* a ghost of state turns real in this step on the cell where a king stands
\* once the move is made
ghostTakesKing(g) ==
    /\ g.materializeIn <= 1
    /\ asReal(g) \in state'.pieces
    /\ \E k \in realPiecesOnly(state) :
          /\ k.type = KING
          /\ IF k.pos = state'.lastMove.from
             THEN state'.lastMove.to = g.pos
             ELSE k.pos = g.pos /\ k.pos # state'.lastMove.to

GameOverSetUnlessGhostWins ==
    [][ /\ plies' = plies + 1 =>
              LET c == state'.turn
                  es == realState(state')
                  takers == {g \in ghostPieces(state) : ghostTakesKing(g)}
              IN  IF takers # {}
                  THEN \E g \in takers : ui'.gameOver = ghostWinsMessage(g.color)
                  ELSE noLegalDestination(es, c) =>
                          ui'.gameOver = IF isKingInCheck(es, c)
                                         THEN winsMessage(state.turn)
                                         ELSE "draw"
        /\ ui.gameOver # "none" =>
              \/ isResetStep
              \/ /\ state'.pieces = state.pieces
                 /\ state'.turn = state.turn
                 /\ state'.cells = state.cells
                 /\ ui'.gameOver = ui.gameOver ]_vars

\* the colour to move is checkmated and the game is over for the mover
GameOverByCheckmate ==
    /\ plies > 0
    /\ ui.gameOver = winsMessage(opponent(state.turn))
    /\ isKingInCheck(realState(state), state.turn)
    /\ noLegalDestination(realState(state), state.turn)
    /\ \E p \in state.pieces : p.color = state.turn /\ p.type = KING

(***************************************************************************)
(* C30: in executeMove a moved pawn becomes a queen exactly when its       *)
(* destination y is the extreme y (the minimum for white, the maximum for  *)
(* black) over all cells of the destination file in the current cell set;  *)
(* a pawn that ends anywhere else keeps type pawn, and no other piece      *)
(* changes type.  The current cell set is the one the move was made on,    *)
(* before any growth of the same move.                                     *)
(***************************************************************************)
noCellBeyond(cells, to, color) ==
    \A c \in cells :
        c[1] = to.x => IF color = WHITE THEN c[2] >= to.y ELSE c[2] <= to.y

PromotionExactlyAtExtreme ==
    [][ plies' = plies + 1 =>
            LET mover == state'.lastMove.piece
                to == state'.lastMove.to
            IN  /\ \A q \in state'.pieces :
                      (q.id = mover.id /\ mover.type = PAWN) =>
                          q.type = IF noCellBeyond(state.cells, to, mover.color)
                                   THEN QUEEN ELSE PAWN
                /\ \A p \in state.pieces, q \in state'.pieces :
                      (p.id = q.id /\ (p.id # mover.id \/ mover.type # PAWN)) =>
                          q.type = p.type ]_vars

\* the pawn that moved last stands on the last cell of its file as a queen
PawnPromoted ==
    /\ plies > 0
    /\ state.lastMove.piece.type = PAWN
    /\ \E q \in state.pieces :
          /\ q.id = state.lastMove.piece.id
          /\ q.pos = state.lastMove.to
          /\ q.type = QUEEN
    /\ \E p \in state.pieces : p.type = PAWN

(***************************************************************************)
(* C12: in the ply loop state.turn flips on every accepted move and on     *)
(* nothing else (resetGame starts a new game from the initial snapshot);   *)
(* a move is accepted only when the piece on the selected cell belongs to  *)
(* the colour to move and the destination is in getValidMoves for that     *)
(* piece on the current snapshot; no colour makes two moves in a row.      *)
(* plies counts the moves accepted in the current game.                    *)
(***************************************************************************)
TurnFlipsOnAcceptedMovesOnly ==
    [][ /\ plies' = plies + 1 =>
              /\ state'.turn = opponent(state.turn)
              /\ ui.selected # NoSel
              /\ \E piece \in realPiecesOnly(state) :
                    /\ piece.pos = ui.selected
                    /\ piece.color = state.turn
                    /\ state'.lastMove.piece = piece
                    /\ state'.lastMove.from = piece.pos
                    /\ state'.lastMove.to
                          \in getValidMoves(realState(state), piece.pos, FALSE)
              /\ state.lastMove # NoMove =>
                    state'.lastMove.piece.color # state.lastMove.piece.color
        /\ (plies' # plies + 1 /\ ~(plies' = 0 /\ state' = ui.initial)) =>
              state'.turn = state.turn ]_vars

\* white has moved, black has moved, and a ghost was bought on the way
TwoMovesAndAGhost ==
    /\ plies = 2
    /\ state.turn = WHITE
    /\ state.lastMove # NoMove
    /\ state.lastMove.piece.color = BLACK
    /\ ghostPieces(state) # {}

(***************************************************************************)
(* The two-peer game with the shop (the second component of part_000).     *)
(* syncState sends the whole snapshot with cells written as an array; the  *)
(* 'data' handler rebuilds the set and replaces the receiver's snapshot.   *)
(***************************************************************************)
\* Array.from(newState.cells)
RECURSIVE arrayFrom(_)
arrayFrom(cells) ==
    IF cells = {} THEN <<>>
    ELSE LET c == CHOOSE d \in cells : \A e \in cells \ {d} : cellBefore(d, e)
         IN  <<c>> \o arrayFrom(cells \ {c})

\* new Set(data.state.cells)
newSet(arr) == {arr[i] : i \in DOMAIN arr}

stateUpdate(newState) ==
    [type |-> "STATE_UPDATE",
     state |-> [newState EXCEPT !.cells = arrayFrom(newState.cells)]]

gameOverMessage(msg) == [type |-> "GAME_OVER", message |-> msg]

receivedState(data) == [data.state EXCEPT !.cells = newSet(@)]

\* connection.send from the peer of colour c: the message joins the other
\* peer's inbox
sendFrom(inbox, c, msgs) == [inbox EXCEPT ![opponent(c)] = @ \o msgs]

(***************************************************************************)
(* executeMove of the two-peer component: the plain relocation (no en      *)
(* passant, castling rook or promotion), the ghosts' countdown, the turn   *)
(* flip and the 5% growth.  from is the selection made on an earlier       *)
(* render; when the snapshot was replaced since, no real piece may stand   *)
(* there, and find returns undefined (NoActive).                           *)
(***************************************************************************)
NoActive == [id |-> "none", type |-> "undefined"]

p2pNextRealPieces(st, from, to) ==
    { IF p.pos.x = from.x /\ p.pos.y = from.y
      THEN [p EXCEPT !.pos = to, !.hasMoved = TRUE] ELSE p
      : p \in {q \in realPiecesOnly(st) : ~(q.pos.x = to.x /\ q.pos.y = to.y)} }

p2pMoveOutcome(st, from, to, newCells) ==
    LET found == {p \in realPiecesOnly(st) : p.pos.x = from.x /\ p.pos.y = from.y}
        activePiece == IF found = {} THEN NoActive ELSE CHOOSE p \in found : TRUE
        ghosts == nextGhosts(st)
        mat == materialize([pieces |-> p2pNextRealPieces(st, from, to),
                            winner |-> "none"],
                           {g \in ghosts : g.materializeIn <= 0})
        finalPieces == {g \in ghosts : g.materializeIn > 0} \cup mat.pieces
    IN  [winner |-> mat.winner,
         nextState |-> [st EXCEPT !.pieces = finalPieces,
                                  !.turn = opponent(st.turn),
                                  !.lastMove = [from |-> from, to |-> to,
                                                piece |-> activePiece],
                                  !.cells = newCells]]

\* GAME_OVER goes out inside the forEach, before syncState's STATE_UPDATE
P2pExecuteMove(c, from, to) ==
    LET me == p2p.peer[c]
    IN  /\ plies < MaxPlies
        /\ \E newCells \in {me.state.cells}
                             \cup (IF grown < MaxGrowths
                                   THEN growthChoices(me.state.cells) ELSE {}) :
              LET o == p2pMoveOutcome(me.state, from, to, newCells)
                  over == IF o.winner = "none" THEN <<>>
                          ELSE <<gameOverMessage(winsMessage(o.winner))>>
                  gone == {p.id : p \in me.state.pieces}
                            \ {p.id : p \in o.nextState.pieces}
              IN  /\ p2p' = [p2p EXCEPT
                        !.peer[c] = [me EXCEPT
                            !.state = o.nextState,
                            !.selected = NoSel,
                            !.validMoves = {},
                            !.gameOver = IF o.winner = "none" THEN @
                                         ELSE winsMessage(o.winner)],
                        !.inbox = sendFrom(@, c,
                                           over \o <<stateUpdate(o.nextState)>>),
                        !.removed = @ \cup gone]
                  /\ grown' = IF newCells = me.state.cells THEN grown
                              ELSE grown + 1
        /\ plies' = plies + 1

(***************************************************************************)
(* handleCellClick of the two-peer component.  The shop branch comes       *)
(* before the isMyTurn test.                                               *)
(***************************************************************************)
P2pShopPlace(c, pos) ==
    LET me == p2p.peer[c]
        cost == GoldUnit * PIECE_COSTS[me.shopActive]
        ghost == newGhost(me.shopActive, c, pos, p2p.bought)
        newState == [me.state EXCEPT !.pieces = @ \cup {ghost},
                                     !.gold[c] = @ - cost]
    IN  IF \/ \E p \in me.state.pieces : isGhost(p) /\ p.color = c
           \/ ~canPlaceAt(pos, c)
           \/ me.state.gold[c] < cost
        THEN UNCHANGED <<p2p, plies, grown>>
        ELSE /\ p2p' = [p2p EXCEPT
                   !.peer[c] = [me EXCEPT !.state = newState,
                                          !.shopActive = "none"],
                   !.inbox = sendFrom(@, c, <<stateUpdate(newState)>>),
                   !.bought = @ + 1,
                   !.purchased = @ \cup {ghost.id}]
             /\ UNCHANGED <<plies, grown>>

\* getPawnMoves reads state.lastMove.piece.type for a pawn with a free
\* diagonal cell on the board: with lastMove.piece undefined the read throws
\* and the handler ends without an assignment.  The pawns asked are the
\* clicked one and, through isKingInCheck, those of the other colour.
lastMoveReadThrows(st, pos) ==
    /\ st.lastMove # NoMove
    /\ st.lastMove.piece = NoActive
    /\ \E p \in st.pieces :
          /\ p.type = PAWN
          /\ \/ p.pos.x = pos.x /\ p.pos.y = pos.y
             \/ /\ p.color # getPieceAt(st, pos).color
                /\ \E k \in st.pieces :
                      k.type = KING /\ k.color = getPieceAt(st, pos).color
          /\ \E dx \in {-1, 1} :
                LET d == Pos(p.pos.x + dx,
                             p.pos.y + (IF p.color = WHITE THEN -1 ELSE 1))
                IN  posToKey(d) \in st.cells /\ ~hasPieceAt(st, d)

P2pSelectPiece(c, pos) ==
    LET me == p2p.peer[c]
        real == realState(me.state)
    IN  /\ IF \E p \in real.pieces :
                 p.pos.x = pos.x /\ p.pos.y = pos.y /\ p.color = c
           THEN IF lastMoveReadThrows(real, pos)
                THEN UNCHANGED p2p
                ELSE IF validMovesHangs(real, pos)
                THEN p2p' = [p2p EXCEPT !.peer[c].hung = TRUE]
                ELSE p2p' = [p2p EXCEPT
                         !.peer[c].selected = pos,
                         !.peer[c].validMoves = getValidMoves(real, pos, FALSE)]
           ELSE p2p' = [p2p EXCEPT !.peer[c].selected = NoSel,
                                   !.peer[c].validMoves = {}]
        /\ UNCHANGED <<plies, grown>>

P2pCellClick(c) ==
    LET me == p2p.peer[c]
    IN  /\ ~me.hung
        /\ \E key \in me.state.cells :
              LET pos == keyToPos(key)
              IN  IF me.gameOver # "none" THEN UNCHANGED <<p2p, plies, grown>>
                  ELSE IF me.shopActive # "none" THEN P2pShopPlace(c, pos)
                  ELSE IF me.state.turn # c THEN UNCHANGED <<p2p, plies, grown>>
                  ELSE IF me.selected # NoSel /\ pos \in me.validMoves
                       THEN P2pExecuteMove(c, me.selected, pos)
                       ELSE P2pSelectPiece(c, pos)
        /\ UNCHANGED <<state, call, sim, exp, ui>>

(***************************************************************************)
(* The other handlers of a peer: the gold interval (each peer runs its     *)
(* own), the shop buttons, and the connection's 'data' handler.            *)
(***************************************************************************)
P2pGoldTick(c) ==
    LET me == p2p.peer[c]
    IN  /\ ~me.hung
        /\ me.state.gold[WHITE] < MaxGold /\ me.state.gold[BLACK] < MaxGold
        /\ p2p' = [p2p EXCEPT !.peer[c].state.gold =
                                  [white |-> @[WHITE] + 1, black |-> @[BLACK] + 1]]
        /\ UNCHANGED <<state, plies, grown, call, sim, exp, ui>>

P2pShopButton(c) ==
    LET me == p2p.peer[c]
    IN  /\ ~me.hung
        /\ p2p.bought < MaxGhosts
        /\ ~\E p \in me.state.pieces : isGhost(p) /\ p.color = c
        /\ \E type \in ShopTypes :
              /\ me.state.gold[c] >= GoldUnit * PIECE_COSTS[type]
              /\ p2p' = [p2p EXCEPT !.peer[c].shopActive = type]
        /\ UNCHANGED <<state, plies, grown, call, sim, exp, ui>>

P2pData(c) ==
    LET me == p2p.peer[c]
    IN  /\ ~me.hung
        /\ p2p.inbox[c] # <<>>
        /\ LET data == Head(p2p.inbox[c])
           IN  p2p' = [p2p EXCEPT
                   !.inbox[c] = Tail(@),
                   !.peer[c] =
                       IF data.type = "STATE_UPDATE"
                       THEN [me EXCEPT !.state = receivedState(data)]
                       ELSE [me EXCEPT !.gameOver = data.message]]
        /\ UNCHANGED <<state, plies, grown, call, sim, exp, ui>>

(***************************************************************************)
(* Games the two peers are connected in: both hold the same snapshot, no   *)
(* message is in flight, and the interval has run three times at each.     *)
(* state keeps the snapshot the peers started from; plies and grown count  *)
(* the moves and growths of both peers together.                           *)
(***************************************************************************)
PeerBoard == Rect(0, 3, 3, 3)

PeerSnapshots ==
    { [mkState(PeerBoard,
               { mkPiece("wk", KING, WHITE, 0, 3, TRUE),
                 mkPiece("bk", KING, BLACK, 3, 3, TRUE) },
               WHITE, NoMove)
         EXCEPT !.gold = [white |-> 3, black |-> 3]] }

PeerInit ==
    /\ state \in PeerSnapshots
    /\ plies = 0
    /\ grown = 0
    /\ call = CallIdle
    /\ sim = NoSim
    /\ exp = ExpIdle
    /\ ui = UiIdle
    /\ p2p = [P2pIdle EXCEPT
                 !.peer = [c \in Color |-> [PeerIdle EXCEPT !.state = state]]]

PeerNext ==
    \E c \in Color :
        P2pCellClick(c) \/ P2pGoldTick(c) \/ P2pShopButton(c) \/ P2pData(c)

PeerSpec == PeerInit /\ [][PeerNext]_vars

(***************************************************************************)
(* C29: in the two-peer game with the shop, once every sent message has    *)
(* been delivered both peers hold the same pieces, turn and cell set, and  *)
(* no accepted move or ghost purchase is lost: the turn is the one reached *)
(* after all the moves made, and every ghost bought stands in both         *)
(* snapshots (as a ghost or as the piece it became) unless an executeMove  *)
(* took it off the board.  This covers a ghost bought by one peer while    *)
(* the other peer makes a move.                                            *)
(***************************************************************************)
allDelivered == p2p.inbox[WHITE] = <<>> /\ p2p.inbox[BLACK] = <<>>

turnAfter(first, n) == IF n % 2 = 0 THEN first ELSE opponent(first)

PeersConvergeAndLoseNothing ==
    (p2p # P2pIdle /\ allDelivered) =>
        LET w == p2p.peer[WHITE].state
            b == p2p.peer[BLACK].state
        IN  /\ w.pieces = b.pieces
            /\ w.turn = b.turn
            /\ w.cells = b.cells
            /\ w.turn = turnAfter(state.turn, plies)
            /\ \A id \in p2p.purchased \ p2p.removed :
                  /\ \E p \in w.pieces : p.id = id
                  /\ \E p \in b.pieces : p.id = id

====
